---- MODULE Spec2Model ----
(***************************************************************************)
(* Model of the OpenZeppelin language server: the ERC-7201 slot            *)
(* calculator (namespace.ts), the namespace diagnostics (diagnostics.ts),  *)
(* the "move all variables" quick fix (quickfixes.ts) and the code-action  *)
(* handler (server.ts).                                                    *)
(***************************************************************************)
EXTENDS Integers, Sequences, FiniteSets, TLC

VARIABLES
    keccakMemo,   \* the digests keccak256 has produced so far: input bytes -> digest bytes
    slotLog,      \* the completed calls of calculateERC7201StorageLocation
    doc,          \* the open text document, as its parsed source unit
    resolvedPrefix, \* what getNamespacePrefix returns for the document
    analysed,     \* a diagnostics request has been answered for the document
    published,    \* the diagnostics of that answer (validateTextDocument)
    answered,     \* a code-action request has been answered
    request,      \* the diagnostics that request carried
    codeActions,  \* the code actions returned for it
    documents,    \* the uris the text document manager holds (documents.get)
    documentSettings, \* the settings cache: uri -> configuration request
    configurationRequests, \* the promises connection.workspace.getConfiguration returned
    tasks,        \* the invocations of async handlers that are suspended at an await
    lastPass      \* the tree and the prefixes of the pass whose diagnostics were sent last

vars == <<keccakMemo, slotLog, doc, resolvedPrefix, analysed, published,
          answered, request, codeActions,
          documents, documentSettings, configurationRequests, tasks, lastPass>>

slotVars == <<keccakMemo, slotLog>>
taskVars == <<documents, documentSettings, configurationRequests, tasks, lastPass>>
serverVars == <<doc, resolvedPrefix, analysed, published, answered, request, codeActions,
                taskVars>>

(***************************************************************************)
(* Bounds                                                                  *)
(***************************************************************************)
\* Width of a model digest in bytes (Keccak-256 has 32).
HashBytes == 2

\* ------------------------------------------------------------------------
\* Generic helpers
\* ------------------------------------------------------------------------
RECURSIVE Pow(_, _)
Pow(b, e) == IF e = 0 THEN 1 ELSE b * Pow(b, e - 1)

Max(a, b) == IF a > b THEN a ELSE b
Min(a, b) == IF a < b THEN a ELSE b

(***************************************************************************)
(* namespace.ts: strings are sequences of one-character strings, buffers   *)
(* are sequences of bytes.                                                 *)
(***************************************************************************)
HexDigits == <<"0", "1", "2", "3", "4", "5", "6", "7",
               "8", "9", "a", "b", "c", "d", "e", "f">>

HexChar(n) == HexDigits[n + 1]

IsHexChar(c) == \E i \in 1..16 : HexDigits[i] = c

HexVal(c) == (CHOOSE i \in 1..16 : HexDigits[i] = c) - 1

\* firstHash.toString('hex'): two lowercase digits per byte
RECURSIVE BufferToHex(_)
BufferToHex(buf) ==
    IF buf = <<>> THEN <<>>
    ELSE <<HexChar(Head(buf) \div 16), HexChar(Head(buf) % 16)>> \o BufferToHex(Tail(buf))

\* BigInt('0x' + hex)
RECURSIVE BigIntFromHex(_)
BigIntFromHex(s) ==
    IF s = <<>> THEN 0
    ELSE BigIntFromHex(SubSeq(s, 1, Len(s) - 1)) * 16 + HexVal(s[Len(s)])

RECURSIVE NatToString16(_)
NatToString16(n) ==
    IF n < 16 THEN <<HexChar(n)>>
    ELSE NatToString16(n \div 16) \o <<HexChar(n % 16)>>

\* bigint.toString(16): no leading zeros, a minus sign for a negative value
BigIntToString16(n) ==
    IF n < 0 THEN <<"-">> \o NatToString16(0 - n) ELSE NatToString16(n)

\* Buffer.from(s, 'hex'): one byte per pair of hexadecimal digits; decoding stops
\* at the first pair that is not two hexadecimal digits, and a trailing single
\* digit is dropped.
RECURSIVE BufferFromHex(_)
BufferFromHex(s) ==
    IF Len(s) < 2 THEN <<>>
    ELSE IF ~(IsHexChar(s[1]) /\ IsHexChar(s[2])) THEN <<>>
    ELSE <<HexVal(s[1]) * 16 + HexVal(s[2])>> \o BufferFromHex(SubSeq(s, 3, Len(s)))

\* s.padStart(n, '0')
RECURSIVE PadStart(_, _)
PadStart(s, n) == IF Len(s) >= n THEN s ELSE PadStart(<<"0">> \o s, n)

\* a & ~m on non-negative bigints, bit by bit
RECURSIVE BigIntAndNot(_, _)
BigIntAndNot(a, m) ==
    IF a = 0 THEN 0
    ELSE (a % 2) * (1 - (m % 2)) + 2 * BigIntAndNot(a \div 2, m \div 2)

\* the value of a buffer read as an unsigned big-endian integer
RECURSIVE BigEndianValue(_)
BigEndianValue(buf) ==
    IF buf = <<>> THEN 0
    ELSE BigEndianValue(SubSeq(buf, 1, Len(buf) - 1)) * 256 + buf[Len(buf)]

\* the shortest big-endian byte string of a non-negative integer
RECURSIVE MinimalBigEndian(_)
MinimalBigEndian(n) ==
    IF n = 0 THEN <<>> ELSE MinimalBigEndian(n \div 256) \o <<n % 256>>


\* ------------------------------------------------------------------------
\* namespace.ts: getNamespaceId and calculateERC7201StorageLocation
\* ------------------------------------------------------------------------
\* number of calls of the slot calculator recorded per identifier
MaxSlotCalls == 2

\* Identifiers are sequences of text atoms; the empty prefix is "".
getNamespaceId(namespacePrefix, contractName) ==
    (IF namespacePrefix # "" THEN <<namespacePrefix, ".">> ELSE <<>>) \o <<contractName>>

\* the UTF-8 bytes of a text atom
AtomBytes(a) ==
    CASE a = "Foo" -> <<70, 111, 111>>
      [] a = "Bar" -> <<66, 97, 114>>
      [] a = "app" -> <<97, 112, 112>>
      [] a = "my app" -> <<109, 121, 32, 97, 112, 112>>
      [] a = "other" -> <<111, 116, 104, 101, 114>>
      [] a = "." -> <<46>>
      [] OTHER -> <<63>>

\* Buffer.from(id)
RECURSIVE Utf8(_)
Utf8(id) == IF id = <<>> THEN <<>> ELSE AtomBytes(Head(id)) \o Utf8(Tail(id))

\* The digests the model lets keccak256 return: z leading zero nibbles (none,
\* one, two, all but one) followed by 1 0 0 ... or by f f f ..., and one digest
\* of mixed digits.  The all-zero
\* digest is left out: no input with that Keccak-256 digest is known.
HashNibbles == 2 * HashBytes

NibblesToBuffer(nib) ==
    [i \in 1..HashBytes |-> nib[2 * i - 1] * 16 + nib[2 * i]]

Digests ==
    { NibblesToBuffer([i \in 1..HashNibbles |->
            IF i <= z THEN 0 ELSE IF i = z + 1 THEN lf[1] ELSE lf[2]]) :
        z \in {0, 1, 2, HashNibbles - 1}, lf \in {<<1, 0>>, <<15, 15>>} }
    \cup { NibblesToBuffer([i \in 1..HashNibbles |-> (3 * i + 7) % 16]) }

\* keccak256(input) against the digests produced so far: a repeated input gets
\* the digest it got before, a new input gets the digest d.
Keccak256(memo, input, d) ==
    IF input \in DOMAIN memo THEN memo ELSE memo @@ (input :> d)

\* the digests keccak256 may return for an input: the one it returned before, or
\* any digest for an input it has not seen
Fresh(memo, input) == IF input \in DOMAIN memo THEN { memo[input] } ELSE Digests

\* namespace.ts:53-54
MinusOne(firstHash) == BigIntFromHex(BufferToHex(firstHash)) - 1

MinusOneBuffer(firstHash) == BufferFromHex(BigIntToString16(MinusOne(firstHash)))

\* namespace.ts:58
Mask == 255

\* namespace.ts:59
MaskedLowNibble(secondHash) == BigIntAndNot(BigIntFromHex(BufferToHex(secondHash)), 15)

Masked(secondHash) == BigIntAndNot(BigIntFromHex(BufferToHex(secondHash)), Mask)

\* namespace.ts:61
PaddedNoPad(masked) == BigIntToString16(masked)

Padded(masked) == PadStart(BigIntToString16(masked), HashNibbles)

\* namespace.ts:63
SlotString(secondHash) == <<"0", "x">> \o Padded(Masked(secondHash))

SlotIds == { getNamespaceId("", "Foo"), getNamespaceId("app", "Foo") }

\* One call of calculateERC7201StorageLocation(id).
calculateERC7201StorageLocation(id) ==
    /\ Len(slotLog[id]) < MaxSlotCalls
    /\ \E d1 \in Fresh(keccakMemo, Utf8(id)) :
         LET m1 == Keccak256(keccakMemo, Utf8(id), d1)
             firstHash == m1[Utf8(id)]
             minusOneBuffer == MinusOneBuffer(firstHash)
         IN \E d2 \in Fresh(m1, minusOneBuffer) :
              LET m2 == Keccak256(m1, minusOneBuffer, d2)
                  secondHash == m2[minusOneBuffer]
              IN /\ keccakMemo' = m2
                 /\ slotLog' = [slotLog EXCEPT ![id] = Append(@,
                        [ firstHash |-> firstHash,
                          minusOneBuffer |-> minusOneBuffer,
                          secondHash |-> secondHash,
                          slot |-> SlotString(secondHash) ])]
    /\ UNCHANGED serverVars

SlotInit ==
    /\ keccakMemo = <<>>
    /\ slotLog = [id \in SlotIds |-> <<>>]


(***************************************************************************)
(* The parsed source unit.  A document is a sequence of contracts:         *)
(*   [name, valid, natspec, parents, members]                              *)
(* valid: the contract parses without errors when re-parsed in isolation;  *)
(* natspec: the tokens of the documentation comment before the contract    *)
(* (<<>>: none); parents: the names of the inheritance list.  Members:     *)
(*   [kind |-> "var", comment, attrs, name, value]                         *)
(*      comment: the id inside a slot-formula comment before the variable  *)
(*      (<<>>: no such comment); value: the initializer's text (<<>>: no   *)
(*      initializer)                                                       *)
(*   [kind |-> "struct", natspec, name, fields]                            *)
(*      natspec: the id of its @custom:storage-location annotation         *)
(*      (<<>>: no documentation comment)                                   *)
(*   [kind |-> "func" or "ctor", name, params, hasBlock, body]             *)
(*      params: the parameters [type, name]; body: the identifiers used in *)
(*      the block, "$line" standing for the accessor declaration line      *)
(* The concrete syntax tree is the pre-order list of its nodes; a terminal  *)
(* occupies one unit of text.                                              *)
(***************************************************************************)
StateVar(comment, attrs, name, value) ==
    [kind |-> "var", comment |-> comment, attrs |-> attrs, name |-> name, value |-> value]

Struct(natspec, name, fields) ==
    [kind |-> "struct", natspec |-> natspec, name |-> name, fields |-> fields]

Function(name, params, body) ==
    [kind |-> "func", name |-> name, params |-> params, hasBlock |-> TRUE, body |-> body]

\* a function declared without a block: function f(...) external;
BodylessFunction(name, params) ==
    [kind |-> "func", name |-> name, params |-> params, hasBlock |-> FALSE, body |-> <<>>]

Constructor(body) ==
    [kind |-> "ctor", name |-> "constructor", params |-> <<>>, hasBlock |-> TRUE,
     body |-> body]

Param(type, name) == [type |-> type, name |-> name]

Contract(name, valid, natspec, parents, members) ==
    [name |-> name, valid |-> valid, natspec |-> natspec, parents |-> parents,
     members |-> members]

\* a terminal node and a nonterminal node followed by its descendants
Terminal(kind, text) ==
    << [kind |-> kind, term |-> TRUE, size |-> 1, text |-> text, m |-> 0, c |-> 0] >>

Nonterminal(kind, children) ==
    << [kind |-> kind, term |-> FALSE, size |-> 1 + Len(children), text |-> "",
        m |-> 0, c |-> 0] >> \o children

RECURSIVE Flatten(_)
Flatten(seqs) == IF seqs = <<>> THEN <<>> ELSE Head(seqs) \o Flatten(Tail(seqs))

OfMember(nodes, m) == [i \in DOMAIN nodes |-> [nodes[i] EXCEPT !.m = m]]
OfContract(nodes, c) == [i \in DOMAIN nodes |-> [nodes[i] EXCEPT !.c = c]]

\* A documentation comment is its text, "\n" between its lines; the tree holds
\* one SingleLineNatSpecComment terminal for each line.
RECURSIVE SplitLines(_)
SplitLines(text) ==
    IF \A k \in DOMAIN text : text[k] # "\n" THEN <<text>>
    ELSE LET k == CHOOSE i \in DOMAIN text :
                      text[i] = "\n" /\ \A j \in 1..(i - 1) : text[j] # "\n"
         IN <<SubSeq(text, 1, k - 1)>> \o SplitLines(SubSeq(text, k + 1, Len(text)))

NatSpecNodes(natspec) ==
    IF natspec = <<>> THEN <<>>
    ELSE Flatten([l \in DOMAIN SplitLines(natspec) |->
                     Terminal("SingleLineNatSpecComment", "///")])

StateVariableNodes(v) ==
    Nonterminal("StateVariableDefinition",
        (IF v.comment # <<>> THEN Terminal("SingleLineComment", "//formula") ELSE <<>>)
        \o Nonterminal("TypeName", Terminal("TypeKeyword", "uint256"))
        \o Nonterminal("StateVariableAttributes",
               Flatten([i \in DOMAIN v.attrs |->
                   Nonterminal("StateVariableAttribute",
                       Terminal("AttributeKeyword", v.attrs[i]))]))
        \o Terminal("Identifier", v.name)
        \o (IF v.value # <<>>
            THEN Nonterminal("StateVariableDefinitionValue",
                     Terminal("Equal", "=")
                     \o Nonterminal("Expression", Terminal("HexLiteral", "literal")))
            ELSE <<>>)
        \o Terminal("Semicolon", ";"))

StructNodes(s) ==
    Nonterminal("StructDefinition",
        NatSpecNodes(s.natspec)
        \o Terminal("StructKeyword", "struct")
        \o Terminal("Identifier", s.name)
        \o Terminal("OpenBrace", "{")
        \o Nonterminal("StructMembers",
               Flatten([i \in DOMAIN s.fields |->
                   Nonterminal("StructMember",
                       Nonterminal("TypeName", Terminal("TypeKeyword", "uint256"))
                       \o Terminal("Identifier", s.fields[i])
                       \o Terminal("Semicolon", ";"))]))
        \o Terminal("CloseBrace", "}"))

ParametersNodes(params) ==
    Nonterminal("ParametersDeclaration",
        Terminal("OpenParen", "(")
        \o Nonterminal("Parameters",
               Flatten([i \in DOMAIN params |->
                   Nonterminal("Parameter",
                       Nonterminal("TypeName", Terminal("TypeKeyword", params[i].type))
                       \o Terminal("Identifier", params[i].name))]))
        \o Terminal("CloseParen", ")"))

\* the names a variable can have, and the same names read through the
\* namespace struct: $.a, $.b, ...
VarNames == <<"a", "b", "c", "d">>

QualifiedNames == <<"$.a", "$.b", "$.c", "$.d">>

IsQualified(entry) == \E k \in DOMAIN QualifiedNames : QualifiedNames[k] = entry

Qualify(name) == QualifiedNames[CHOOSE k \in DOMAIN VarNames : VarNames[k] = name]

Unqualify(entry) == VarNames[CHOOSE k \in DOMAIN QualifiedNames : QualifiedNames[k] = entry]

BlockNodes(body) ==
    Nonterminal("Block",
        Terminal("OpenBrace", "{")
        \o Nonterminal("Statements",
               Flatten([i \in DOMAIN body |->
                   IF body[i] = "$line"
                   THEN Nonterminal("VariableDeclarationStatement",
                            Terminal("StorageGetterLine", "$line"))
                   ELSE IF IsQualified(body[i])
                   THEN Nonterminal("ExpressionStatement",
                            Nonterminal("MemberAccessExpression",
                                Terminal("Identifier", "$")
                                \o Terminal("Period", ".")
                                \o Terminal("Identifier", Unqualify(body[i])))
                            \o Terminal("Semicolon", ";"))
                   ELSE Nonterminal("ExpressionStatement",
                            Terminal("Identifier", body[i])
                            \o Terminal("Semicolon", ";"))]))
        \o Terminal("CloseBrace", "}"))

FunctionNodes(f) ==
    IF f.kind = "ctor"
    THEN Nonterminal("ConstructorDefinition",
             Terminal("ConstructorKeyword", "constructor")
             \o ParametersNodes(f.params)
             \o BlockNodes(f.body))
    ELSE Nonterminal("FunctionDefinition",
             Terminal("FunctionKeyword", "function")
             \o Nonterminal("FunctionName", Terminal("Identifier", f.name))
             \o ParametersNodes(f.params)
             \o Nonterminal("FunctionBody",
                    IF f.hasBlock THEN BlockNodes(f.body) ELSE Terminal("Semicolon", ";")))

MemberNodes(mem) ==
    CASE mem.kind = "var" -> StateVariableNodes(mem)
      [] mem.kind = "struct" -> StructNodes(mem)
      [] OTHER -> FunctionNodes(mem)

ContractNodes(con) ==
    Nonterminal("ContractDefinition",
        NatSpecNodes(con.natspec)
        \o Terminal("ContractKeyword", "contract")
        \o Terminal("Identifier", con.name)
        \o (IF con.parents # <<>>
            THEN Nonterminal("InheritanceSpecifier",
                     Terminal("IsKeyword", "is")
                     \o Flatten([i \in DOMAIN con.parents |->
                            Nonterminal("InheritanceType",
                                Terminal("Identifier", con.parents[i]))]))
            ELSE <<>>)
        \o Terminal("OpenBrace", "{")
        \o Nonterminal("ContractMembers",
               Flatten([i \in DOMAIN con.members |->
                   OfMember(MemberNodes(con.members[i]), i)]))
        \o Terminal("CloseBrace", "}"))

\* language.parse(NonterminalKind.SourceUnit, text)
SourceUnitNodes(d) ==
    Nonterminal("SourceUnit",
        Flatten([c \in DOMAIN d |-> OfContract(ContractNodes(d[c]), c)]))


(***************************************************************************)
(* Cursors over the tree: [root, pos, done].  A spawned cursor stays       *)
(* inside the subtree of the node it was spawned at; a search that finds   *)
(* nothing leaves the cursor completed, at its root.                       *)
(***************************************************************************)
SubtreeEnd(nodes, i) == i + nodes[i].size - 1

Spawn(i) == [root |-> i, pos |-> i, done |-> FALSE]

SetMin(S) == CHOOSE x \in S : \A y \in S : x <= y
SetMax(S) == CHOOSE x \in S : \A y \in S : x >= y

\* the nodes after the cursor, inside its root, of the given sort and kinds
Following(nodes, cur, term, kinds) ==
    { j \in (cur.pos + 1)..SubtreeEnd(nodes, cur.root) :
        nodes[j].term = term /\ nodes[j].kind \in kinds }

\* goToNextNonterminalWithKind(s) / goToNextTerminalWithKind
GoToNext(nodes, cur, term, kinds) ==
    IF cur.done \/ Following(nodes, cur, term, kinds) = {}
    THEN [cur EXCEPT !.pos = cur.root, !.done = TRUE]
    ELSE [cur EXCEPT !.pos = SetMin(Following(nodes, cur, term, kinds))]

\* the indices in lo..hi of the nodes of the given sort and kinds, in order
Select(nodes, lo, hi, term, kinds) ==
    LET found == { j \in lo..hi : nodes[j].term = term /\ nodes[j].kind \in kinds }
    IN [k \in 1..Cardinality(found) |->
           CHOOSE j \in found : Cardinality({ x \in found : x <= j }) = k]

TerminalsIn(nodes, lo, hi) == Cardinality({ j \in lo..hi : nodes[j].term })

\* cursor.textRange, in units of text
TextRange(nodes, i) ==
    [start |-> TerminalsIn(nodes, 1, i - 1),
     end |-> TerminalsIn(nodes, 1, i - 1) + TerminalsIn(nodes, i, SubtreeEnd(nodes, i))]

\* textDocument.getText().length
TextLength(nodes) == TerminalsIn(nodes, 1, Len(nodes))

TriviaKinds == {"EndOfLine", "MultiLineComment", "MultiLineNatSpecComment",
                "SingleLineComment", "SingleLineNatSpecComment", "Whitespace"}

isTrivia(node) == node.term /\ node.kind \in TriviaKinds

\* getTrimmedRange: from the first to the last terminal that is not trivia
getTrimmedRange(nodes, i) ==
    LET solid == { j \in i..SubtreeEnd(nodes, i) : nodes[j].term /\ ~isTrivia(nodes[j]) }
    IN IF solid = {} THEN TextRange(nodes, i)
       ELSE [start |-> TextRange(nodes, SetMin(solid)).start,
             end |-> TextRange(nodes, SetMax(solid)).end]

\* slangToVSCodeRange: positionAt clamps an offset to the text
slangToVSCodeRange(nodes, r) ==
    [start |-> Min(r.start, TextLength(nodes)), end |-> Min(r.end, TextLength(nodes))]

\* getNatSpec: the first NatSpec comment among the trivia that follow the
\* cursor's node, 0 when a terminal that is not trivia comes first
RECURSIVE NatSpecFrom(_, _)
NatSpecFrom(nodes, j) ==
    IF j > Len(nodes) THEN 0
    ELSE IF ~nodes[j].term THEN NatSpecFrom(nodes, j + 1)
    ELSE IF ~isTrivia(nodes[j]) THEN 0
    ELSE IF nodes[j].kind \in {"SingleLineNatSpecComment", "MultiLineNatSpecComment"} THEN j
    ELSE NatSpecFrom(nodes, j + 1)

getNatSpec(nodes, i) == NatSpecFrom(nodes, i + 1)

\* getLastPrecedingTriviaWithKinds(cursor, [SingleLineComment, MultiLineComment]):
\* the last comment among the trivia before the declaration's first token
getLastPrecedingTriviaWithKinds(nodes, i) ==
    LET solid == { j \in i..SubtreeEnd(nodes, i) : nodes[j].term /\ ~isTrivia(nodes[j]) }
        first == IF solid = {} THEN SubtreeEnd(nodes, i) + 1 ELSE SetMin(solid)
        comments == { j \in i..(first - 1) :
                        nodes[j].term /\ nodes[j].kind \in {"SingleLineComment", "MultiLineComment"} }
    IN IF comments = {} THEN 0 ELSE SetMax(comments)


(***************************************************************************)
(* diagnostics.ts                                                          *)
(***************************************************************************)
VARIABLE_CAN_BE_NAMESPACED == "VariableCanBeNamespaced"
CONTRACT_CAN_BE_NAMESPACED == "ContractCanBeNamespaced"
NAMESPACE_ID_MISMATCH == "NamespaceIdMismatch"
NAMESPACE_ID_MISMATCH_HASH_COMMENT == "NamespaceIdMismatchHashComment"
NAMESPACE_HASH_MISMATCH == "NamespaceHashMismatch"
NAMESPACE_STANDALONE_HASH_MISMATCH == "NamespaceStandaloneHashMismatch"
VARIABLE_HAS_INITIAL_VALUE == "VariableHasInitialValue"

\* The data attached to a diagnostic: undefined, { replacement } or a
\* NamespaceableContract { name, variables }.
Undefined == [present |-> FALSE, replacement |-> <<>>, name |-> "", variables |-> <<>>]

ReplacementData(text) ==
    [present |-> TRUE, replacement |-> text, name |-> "", variables |-> <<>>]

ContractData(namespaceableContract) ==
    [present |-> TRUE, replacement |-> <<>>, name |-> namespaceableContract.name,
     variables |-> namespaceableContract.variables]

\* addDiagnostic.  c and m name the contract and the member the diagnostic was
\* computed for (m = 0: the contract itself); they are not sent to the client.
addDiagnostic(range, code, data, c, m) ==
    << [code |-> code, range |-> range, data |-> data, c |-> c, m |-> m] >>

\* calculateERC7201StorageLocation(id) read off a table of digests
SlotFromTable(memo, id) ==
    SlotString(memo[MinusOneBuffer(memo[Utf8(id)])])

\* a documentation or line comment that carries no annotation and no formula
NoAnnotation == <<"@dev">>

\* the unparsed text of a subtree, one atom per terminal
Unparse(nodes, i) ==
    LET idx == Select(nodes, i, SubtreeEnd(nodes, i), TRUE,
                      { nodes[j].kind : j \in i..SubtreeEnd(nodes, i) })
    IN [k \in DOMAIN idx |-> nodes[idx[k]].text]

\* the literals written inside a subtree of contract con
LiteralsIn(nodes, con, i) ==
    { con.members[nodes[j].m].value :
        j \in { k \in i..SubtreeEnd(nodes, i) : nodes[k].term /\ nodes[k].kind = "HexLiteral" } }

\* node.text of the NatSpec terminal at j: the line of the documentation
\* comment of its contract (m = 0) or struct that the terminal stands for
NatSpecLine(nodes, con, j) ==
    LET line == Cardinality({ k \in 1..j :
                    /\ nodes[k].term /\ nodes[k].kind = "SingleLineNatSpecComment"
                    /\ nodes[k].c = nodes[j].c /\ nodes[k].m = nodes[j].m })
    IN SplitLines(IF nodes[j].m = 0 THEN con.natspec
                  ELSE con.members[nodes[j].m].natspec)[line]

\* inferUpgradeable
inferUpgradeable(nodes, ci, con) ==
    LET hasInitializable == \E k \in DOMAIN con.parents : con.parents[k] = "Initializable"
        hasUUPSUpgradeable == \E k \in DOMAIN con.parents : con.parents[k] = "UUPSUpgradeable"
        functions == Select(nodes, ci + 1, SubtreeEnd(nodes, ci), FALSE, {"FunctionDefinition"})
        natSpec == getNatSpec(nodes, ci)
    IN \/ hasInitializable \/ hasUUPSUpgradeable
       \/ \E k \in DOMAIN functions :
            LET functionDef == con.members[nodes[functions[k]].m]
            IN /\ functionDef.name = "_authorizeUpgrade"
               /\ Len(functionDef.params) = 1
               /\ functionDef.params[1].type = "address"
       \/ /\ natSpec # 0
          /\ \E k \in DOMAIN NatSpecLine(nodes, con, natSpec) :
               NatSpecLine(nodes, con, natSpec)[k]
                   \in {"@custom:oz-upgrades", "@custom:oz-upgrades-from"}

\* diagnostics.ts:132-135, the attributes that make a variable ignored
IgnoreVariableImmutableOnly(attributes) ==
    \E k \in DOMAIN attributes : attributes[k] = "immutable"

IgnoreVariable(attributes) ==
    \E k \in DOMAIN attributes : attributes[k] \in {"immutable", "constant"}

\* diagnostics.ts:130-137, the declaration kept for the namespace struct
Replacement(nodes, i, stateVar) ==
    IF \E k \in DOMAIN stateVar.attrs : stateVar.attrs[k] \notin {"immutable", "constant"}
    THEN <<"uint256", " ", stateVar.name, ";">>
    ELSE Unparse(nodes, i)

\* diagnostics.ts:144-174, one state variable: its diagnostics and what it
\* adds to namespaceableContract.variables
VariableOutcomePushWhenReported(nodes, i, stateVar, skipDiagnostic, c) ==
    LET range == slangToVSCodeRange(nodes, getTrimmedRange(nodes, i))
        variable == [content |-> Replacement(nodes, i, stateVar),
                     name |-> stateVar.name, range |-> range]
    IN IF IgnoreVariable(stateVar.attrs) \/ skipDiagnostic
       THEN [diagnostics |-> <<>>, variables |-> <<>>]
       ELSE IF stateVar.value # <<>>
       THEN [diagnostics |->
                addDiagnostic(range, VARIABLE_HAS_INITIAL_VALUE, Undefined, c, nodes[i].m),
             variables |-> <<>>]
       ELSE [diagnostics |->
                addDiagnostic(range, VARIABLE_CAN_BE_NAMESPACED, Undefined, c, nodes[i].m),
             variables |-> <<variable>>]

VariableOutcomeAlwaysPush(nodes, i, stateVar, skipDiagnostic, c) ==
    LET range == slangToVSCodeRange(nodes, getTrimmedRange(nodes, i))
        variable == [content |-> Replacement(nodes, i, stateVar),
                     name |-> stateVar.name, range |-> range]
    IN IF IgnoreVariable(stateVar.attrs)
       THEN [diagnostics |-> <<>>, variables |-> <<>>]
       ELSE [diagnostics |->
                IF skipDiagnostic THEN <<>>
                ELSE addDiagnostic(range,
                         IF stateVar.value # <<>> THEN VARIABLE_HAS_INITIAL_VALUE
                         ELSE VARIABLE_CAN_BE_NAMESPACED, Undefined, c, nodes[i].m),
             variables |-> <<variable>>]

VariableOutcome(nodes, i, stateVar, skipDiagnostic, c) ==
    LET range == slangToVSCodeRange(nodes, getTrimmedRange(nodes, i))
        variable == [content |-> Replacement(nodes, i, stateVar),
                     name |-> stateVar.name, range |-> range]
    IN IF IgnoreVariable(stateVar.attrs)
       THEN [diagnostics |-> <<>>, variables |-> <<>>]
       ELSE IF stateVar.value # <<>>
       THEN [diagnostics |->
                IF ~skipDiagnostic
                THEN addDiagnostic(range, VARIABLE_HAS_INITIAL_VALUE, Undefined, c, nodes[i].m)
                ELSE <<>>,
             variables |-> <<>>]
       ELSE [diagnostics |->
                IF ~skipDiagnostic
                THEN addDiagnostic(range, VARIABLE_CAN_BE_NAMESPACED, Undefined, c, nodes[i].m)
                ELSE <<>>,
             variables |-> <<variable>>]

\* validateNamespaceableVariables: the loop over the contract's state variables
RECURSIVE VariablesLoop(_, _, _, _, _, _)
VariablesLoop(nodes, con, c, stateVars, k, skipDiagnostic) ==
    IF k > Len(stateVars) THEN [diagnostics |-> <<>>, variables |-> <<>>]
    ELSE LET one == VariableOutcome(nodes, stateVars[k], con.members[nodes[stateVars[k]].m],
                                    skipDiagnostic, c)
             rest == VariablesLoop(nodes, con, c, stateVars, k + 1, skipDiagnostic)
         IN [diagnostics |-> one.diagnostics \o rest.diagnostics,
             variables |-> one.variables \o rest.variables]

validateNamespaceableVariables(nodes, ci, con, c, skipDiagnostic) ==
    VariablesLoop(nodes, con, c,
        Select(nodes, ci + 1, SubtreeEnd(nodes, ci), FALSE, {"StateVariableDefinition"}),
        1, skipDiagnostic)

\* validateNamespaceableContract
validateNamespaceableContractPerVariable(nodes, ci, c, namespaceableContract) ==
    LET childCursor == GoToNext(nodes, Spawn(ci), TRUE, {"Identifier"})
        range == slangToVSCodeRange(nodes,
                     [start |-> TextRange(nodes, childCursor.pos).start,
                      end |-> TextRange(nodes, ci).end])
    IN Flatten([k \in DOMAIN namespaceableContract.variables |->
           addDiagnostic(range, CONTRACT_CAN_BE_NAMESPACED,
                         ContractData(namespaceableContract), c, 0)])

validateNamespaceableContract(nodes, ci, c, namespaceableContract) ==
    IF Len(namespaceableContract.variables) > 0
    THEN LET childCursor == GoToNext(nodes, Spawn(ci), TRUE, {"Identifier"})
             identifierStart == TextRange(nodes, childCursor.pos).start
             contractDefEnd == TextRange(nodes, ci).end
         IN addDiagnostic(
                slangToVSCodeRange(nodes, [start |-> identifierStart, end |-> contractDefEnd]),
                CONTRACT_CAN_BE_NAMESPACED, ContractData(namespaceableContract), c, 0)
    ELSE <<>>


\* the line the struct annotation fix writes
AnnotationLine(expectedNamespaceId) ==
    <<"/// @custom:storage-location erc7201:">> \o expectedNamespaceId

\* the line the formula comment fix writes
FormulaComment(expectedNamespaceId) ==
    <<"// keccak256(abi.encode(uint256(keccak256(\"">> \o expectedNamespaceId
    \o <<"\")) - 1)) & ~bytes32(uint256(0xff))">>

\* diagnostics.ts:267-279, the struct at node i has a documentation comment
\* whose text matches the annotation's pattern
AnnotationMatches(nodes, con, i) ==
    /\ getNatSpec(nodes, i) # 0
    /\ NatSpecLine(nodes, con, getNatSpec(nodes, i)) # NoAnnotation

\* the text atoms that hold white space, and what comes before it
HasWhitespace(atom) == atom = "my app"

BeforeWhitespace(atom) == CASE atom = "my app" -> "my" [] OTHER -> atom

\* diagnostics.ts:273-279, match[1] of /@custom:storage-location erc7201:(\S+)/:
\* the annotation's identifier up to its first white space
MatchedId(annotation) ==
    IF \E k \in DOMAIN annotation : HasWhitespace(annotation[k])
    THEN SubSeq(annotation, 1,
                SetMin({ k \in DOMAIN annotation : HasWhitespace(annotation[k]) }) - 1)
         \o << BeforeWhitespace(
                   annotation[SetMin({ k \in DOMAIN annotation :
                                         HasWhitespace(annotation[k]) })]) >>
    ELSE annotation

\* diagnostics.ts:264-297, the body of the loop for the struct at node i;
\* namespacePrefix is what getNamespacePrefix resolved to at line 282
StructAnnotationAt(nodes, con, c, i, namespacePrefix) ==
    LET natSpec == getNatSpec(nodes, i)
        expectedNamespaceId == getNamespaceId(namespacePrefix, con.name)
    IN IF AnnotationMatches(nodes, con, i)
          /\ MatchedId(NatSpecLine(nodes, con, natSpec)) # expectedNamespaceId
       THEN addDiagnostic(slangToVSCodeRange(nodes, TextRange(nodes, natSpec)),
                NAMESPACE_ID_MISMATCH,
                ReplacementData(AnnotationLine(expectedNamespaceId)),
                c, nodes[i].m)
       ELSE <<>>

\* validateNamespaceStructAnnotation
validateNamespaceStructAnnotation(nodes, ci, con, c, namespacePrefix) ==
    LET structs == Select(nodes, ci + 1, SubtreeEnd(nodes, ci), FALSE, {"StructDefinition"})
    IN Flatten([k \in DOMAIN structs |->
           StructAnnotationAt(nodes, con, c, structs[k], namespacePrefix)])

\* diagnostics.ts:220, names ending in _STORAGE_LOCATION or StorageLocation
IsStorageLocationName(name) ==
    name \in {"FooStorageLocation", "BarStorageLocation", "FOO_STORAGE_LOCATION"}

\* diagnostics.ts:243, the condition of the standalone hash rule
StandaloneMismatchIgnoringComment(commentHasUnexpectedNamespace, expectedHashFromNamespace, expectedHashFromComment, text) ==
    expectedHashFromNamespace \notin text

StandaloneMismatch(commentHasUnexpectedNamespace, expectedHashFromNamespace, expectedHashFromComment, text) ==
    /\ ~commentHasUnexpectedNamespace
    /\ expectedHashFromNamespace # expectedHashFromComment
    /\ expectedHashFromNamespace \notin text

\* diagnostics.ts:181-190, the variable the cursor is at has a comment with the
\* slot formula before it
CommentMatches(nodes, con, atVar) ==
    /\ getLastPrecedingTriviaWithKinds(nodes, atVar.pos) # 0
    /\ con.members[nodes[atVar.pos].m].comment # NoAnnotation

\* diagnostics.ts:220-222, the cursor moved to the initializer's expression
AtInitializer(nodes, atVar) ==
    GoToNext(nodes, GoToNext(nodes, atVar, FALSE, {"StateVariableDefinitionValue"}),
             FALSE, {"Expression"})

\* diagnostics.ts:220-224, the variable has a storage location name and the
\* cursor reached a nonterminal
HashIsChecked(nodes, con, atVar) ==
    /\ IsStorageLocationName(con.members[nodes[atVar.pos].m].name)
    /\ ~nodes[AtInitializer(nodes, atVar).pos].term

\* diagnostics.ts:181-256, the body of the loop for the variable the cursor is
\* at; commentPrefix is what getNamespacePrefix resolved to at line 191,
\* hashPrefix at line 227
CommentAndHashAt(nodes, con, c, atVar, commentPrefix, hashPrefix, memo) ==
      LET stateVar == con.members[nodes[atVar.pos].m]
          comment == getLastPrecedingTriviaWithKinds(nodes, atVar.pos)
          match == CommentMatches(nodes, con, atVar)
          commentHasUnexpectedNamespace ==
              match /\ stateVar.comment # getNamespaceId(commentPrefix, con.name)
          expectedHashFromComment ==
              IF match THEN SlotFromTable(memo, stateVar.comment) ELSE <<>>
          atExpression == AtInitializer(nodes, atVar)
          checked == HashIsChecked(nodes, con, atVar)
          text == LiteralsIn(nodes, con, atExpression.pos)
          expectedHashFromNamespace ==
              SlotFromTable(memo, getNamespaceId(hashPrefix, con.name))
          range == slangToVSCodeRange(nodes, getTrimmedRange(nodes, atExpression.pos))
      IN (IF commentHasUnexpectedNamespace
          THEN addDiagnostic(slangToVSCodeRange(nodes, TextRange(nodes, comment)),
                   NAMESPACE_ID_MISMATCH_HASH_COMMENT,
                   ReplacementData(FormulaComment(getNamespaceId(commentPrefix, con.name))),
                   c, nodes[atVar.pos].m)
          ELSE <<>>)
         \o (IF /\ checked
                /\ expectedHashFromComment # <<>>
                /\ expectedHashFromComment \notin text
             THEN addDiagnostic(range, NAMESPACE_HASH_MISMATCH,
                      ReplacementData(expectedHashFromComment), c, nodes[atVar.pos].m)
             ELSE <<>>)
         \o (IF /\ checked
                /\ StandaloneMismatch(commentHasUnexpectedNamespace,
                       expectedHashFromNamespace, expectedHashFromComment, text)
             THEN addDiagnostic(range, NAMESPACE_STANDALONE_HASH_MISMATCH,
                      ReplacementData(expectedHashFromNamespace), c, nodes[atVar.pos].m)
             ELSE <<>>)

\* where the loop leaves the cursor after the variable: on the initializer it
\* inspected, or on the variable
CommentAndHashAfter(nodes, con, atVar) ==
    IF IsStorageLocationName(con.members[nodes[atVar.pos].m].name)
    THEN AtInitializer(nodes, atVar) ELSE atVar

\* validateNamespaceCommentAndHash: the loop over the state variables, with the
\* cursor the loop moves
RECURSIVE CommentAndHashLoop(_, _, _, _, _, _)
CommentAndHashLoop(nodes, con, c, cur, namespacePrefix, memo) ==
    LET atVar == GoToNext(nodes, cur, FALSE, {"StateVariableDefinition"}) IN
    IF atVar.done THEN <<>>
    ELSE CommentAndHashAt(nodes, con, c, atVar, namespacePrefix, namespacePrefix, memo)
         \o CommentAndHashLoop(nodes, con, c, CommentAndHashAfter(nodes, con, atVar),
                               namespacePrefix, memo)

validateNamespaceCommentAndHash(nodes, ci, con, c, namespacePrefix, memo) ==
    CommentAndHashLoop(nodes, con, c, Spawn(ci), namespacePrefix, memo)

\* diagnostics.ts:54, the skipDiagnostic argument
SkipDiagnosticWhenUpgradeable(inferredUpgradeable) == inferredUpgradeable

SkipDiagnostic(inferredUpgradeable) == ~inferredUpgradeable

\* one contract of validateNamespaces without the test at diagnostics.ts:50
ValidateContractUngated(nodes, ci, con, c, namespacePrefix, memo) ==
    IF ~con.valid THEN <<>>
    ELSE
      LET inferredUpgradeable == inferUpgradeable(nodes, ci, con)
          found == validateNamespaceableVariables(nodes, ci, con, c,
                       SkipDiagnostic(inferredUpgradeable))
          namespaceableContract == [name |-> con.name, variables |-> found.variables]
      IN validateNamespaceStructAnnotation(nodes, ci, con, c, namespacePrefix)
         \o validateNamespaceCommentAndHash(nodes, ci, con, c, namespacePrefix, memo)
         \o found.diagnostics
         \o validateNamespaceableContract(nodes, ci, c, namespaceableContract)

\* diagnostics.ts:36-55, one contract of validateNamespaces
ValidateContract(nodes, ci, con, c, namespacePrefix, memo) ==
    IF ~con.valid THEN <<>>
    ELSE
      LET inferredUpgradeable == inferUpgradeable(nodes, ci, con)
          found == validateNamespaceableVariables(nodes, ci, con, c,
                       SkipDiagnostic(inferredUpgradeable))
          namespaceableContract == [name |-> con.name, variables |-> found.variables]
      IN (IF inferredUpgradeable
          THEN validateNamespaceStructAnnotation(nodes, ci, con, c, namespacePrefix)
               \o validateNamespaceCommentAndHash(nodes, ci, con, c, namespacePrefix, memo)
          ELSE <<>>)
         \o found.diagnostics
         \o validateNamespaceableContract(nodes, ci, c, namespaceableContract)

\* validateNamespaces over the source unit
validateNamespaces(d, namespacePrefix, memo) ==
    LET nodes == SourceUnitNodes(d)
        contracts == Select(nodes, 2, Len(nodes), FALSE, {"ContractDefinition"})
    IN Flatten([k \in DOMAIN contracts |->
           ValidateContract(nodes, contracts[k], d[nodes[contracts[k]].c],
                            nodes[contracts[k]].c, namespacePrefix, memo)])


(***************************************************************************)
(* The calls of getNamespacePrefix of a pass.  validateNamespaces awaits    *)
(* getNamespacePrefix once for every struct whose annotation matches        *)
(* (diagnostics.ts:282), for every variable whose comment matches (191) and *)
(* for every storage location constant (227).  A site is one such call; a   *)
(* pass resolves its sites in order and reads[k] is what the k-th resolved  *)
(* to.                                                                      *)
(***************************************************************************)
Site(c, pos, at) == [c |-> c, pos |-> pos, at |-> at]

RECURSIVE CommentAndHashSites(_, _, _, _)
CommentAndHashSites(nodes, con, c, cur) ==
    LET atVar == GoToNext(nodes, cur, FALSE, {"StateVariableDefinition"}) IN
    IF atVar.done THEN <<>>
    ELSE (IF CommentMatches(nodes, con, atVar)
          THEN << Site(c, atVar.pos, "comment") >> ELSE <<>>)
         \o (IF HashIsChecked(nodes, con, atVar)
             THEN << Site(c, atVar.pos, "hash") >> ELSE <<>>)
         \o CommentAndHashSites(nodes, con, c, CommentAndHashAfter(nodes, con, atVar))

StructAnnotationSites(nodes, ci, con, c) ==
    LET structs == Select(nodes, ci + 1, SubtreeEnd(nodes, ci), FALSE, {"StructDefinition"})
    IN Flatten([k \in DOMAIN structs |->
           IF AnnotationMatches(nodes, con, structs[k])
           THEN << Site(c, structs[k], "annotation") >> ELSE <<>>])

ContractSites(nodes, ci, con, c) ==
    IF con.valid /\ inferUpgradeable(nodes, ci, con)
    THEN StructAnnotationSites(nodes, ci, con, c)
         \o CommentAndHashSites(nodes, con, c, Spawn(ci))
    ELSE <<>>

PrefixSites(d) ==
    LET nodes == SourceUnitNodes(d)
        contracts == Select(nodes, 2, Len(nodes), FALSE, {"ContractDefinition"})
    IN Flatten([k \in DOMAIN contracts |->
           ContractSites(nodes, contracts[k], d[nodes[contracts[k]].c],
                         nodes[contracts[k]].c)])

\* what the call at a site resolved to ("" where the pass makes no such call)
ReadAt(sites, reads, site) ==
    IF \E k \in DOMAIN sites : sites[k] = site
    THEN reads[CHOOSE k \in DOMAIN sites : sites[k] = site]
    ELSE ""

\* validateNamespaceCommentAndHash with what each call resolved to
RECURSIVE CommentAndHashWalk(_, _, _, _, _, _, _)
CommentAndHashWalk(nodes, con, c, cur, sites, reads, memo) ==
    LET atVar == GoToNext(nodes, cur, FALSE, {"StateVariableDefinition"}) IN
    IF atVar.done THEN <<>>
    ELSE CommentAndHashAt(nodes, con, c, atVar,
             ReadAt(sites, reads, Site(c, atVar.pos, "comment")),
             ReadAt(sites, reads, Site(c, atVar.pos, "hash")), memo)
         \o CommentAndHashWalk(nodes, con, c, CommentAndHashAfter(nodes, con, atVar),
                               sites, reads, memo)

\* validateNamespaceStructAnnotation with what each call resolved to
StructAnnotationWalk(nodes, ci, con, c, sites, reads) ==
    LET structs == Select(nodes, ci + 1, SubtreeEnd(nodes, ci), FALSE, {"StructDefinition"})
    IN Flatten([k \in DOMAIN structs |->
           StructAnnotationAt(nodes, con, c, structs[k],
               ReadAt(sites, reads, Site(c, structs[k], "annotation")))])

\* diagnostics.ts:36-55, one contract, with what each call resolved to
ValidateContractWalk(nodes, ci, con, c, sites, reads, memo) ==
    IF ~con.valid THEN <<>>
    ELSE
      LET inferredUpgradeable == inferUpgradeable(nodes, ci, con)
          found == validateNamespaceableVariables(nodes, ci, con, c,
                       SkipDiagnostic(inferredUpgradeable))
          namespaceableContract == [name |-> con.name, variables |-> found.variables]
      IN (IF inferredUpgradeable
          THEN StructAnnotationWalk(nodes, ci, con, c, sites, reads)
               \o CommentAndHashWalk(nodes, con, c, Spawn(ci), sites, reads, memo)
          ELSE <<>>)
         \o found.diagnostics
         \o validateNamespaceableContract(nodes, ci, c, namespaceableContract)

\* validateNamespaces, with what each call of getNamespacePrefix resolved to
validateNamespacesWalk(d, sites, reads, memo) ==
    LET nodes == SourceUnitNodes(d)
        contracts == Select(nodes, 2, Len(nodes), FALSE, {"ContractDefinition"})
    IN Flatten([k \in DOMAIN contracts |->
           ValidateContractWalk(nodes, contracts[k], d[nodes[contracts[k]].c],
                                nodes[contracts[k]].c, sites, reads, memo)])

(***************************************************************************)
(* namespace.ts: printNamespaceTemplate.  Text is a sequence of atoms.      *)
(***************************************************************************)
printNamespaceTemplate(memo, namespace) ==
    LET namespaceId == getNamespaceId(namespace.prefix, namespace.contractName)
        structName == <<namespace.contractName, "Storage">>
        locationName == structName \o <<"Location">>
        rootLocation == SlotFromTable(memo, namespaceId)
    IN AnnotationLine(namespaceId)
       \o <<"struct">> \o structName \o <<"{">>
       \o Flatten([k \in DOMAIN namespace.variables |-> namespace.variables[k].content])
       \o <<"}">>
       \o FormulaComment(namespaceId)
       \o <<"bytes32 private constant">> \o locationName \o <<"=">> \o rootLocation \o <<";">>
       \o <<"function _get">> \o structName \o <<"() private pure returns (">>
       \o structName \o <<" storage $) { assembly { $.slot := ">> \o locationName
       \o <<" } }">>

(***************************************************************************)
(* quickfixes.ts.  A text edit is [range, newText]; a step that can throw   *)
(* returns [threw, edits].                                                 *)
(***************************************************************************)
TextEdit(range, newText) == [range |-> range, newText |-> newText]

\* two ranges share text
Intersect(r1, r2) == r1.start < r2.end /\ r2.start < r1.end

\* the edit set of a code action has two edits whose ranges intersect
HasIntersectingEdits(action) ==
    \E i, j \in DOMAIN action.edits :
        i < j /\ Intersect(action.edits[i].range, action.edits[j].range)

\* s.includes(part), on sequences of atoms
Includes(s, part) ==
    \E k \in 0..(Len(s) - Len(part)) : SubSeq(s, k + 1, k + Len(part)) = part

\* the text of a struct's documentation comment
NatSpecText(annotation) ==
    IF annotation = NoAnnotation THEN <<"///">> \o NoAnnotation ELSE AnnotationLine(annotation)

\* getNamespaceStructEndRange: <<>> stands for undefined
getNamespaceStructEndRange(nodes, ci, con, prefix, contractName) ==
    LET namespaceStructCursor == GoToNext(nodes, Spawn(ci), TRUE, {"SingleLineNatSpecComment"})
        natspecNode == nodes[namespaceStructCursor.pos]
        natspecText == IF ~natspecNode.term THEN <<>>
                       ELSE IF natspecNode.m = 0
                       THEN NatSpecLine(nodes, con, namespaceStructCursor.pos)
                       ELSE NatSpecText(NatSpecLine(nodes, con, namespaceStructCursor.pos))
        namespaceStructEndCursor == GoToNext(nodes, Spawn(ci), TRUE, {"CloseBrace"})
    IN IF /\ natspecNode.term
          /\ Includes(natspecText, AnnotationLine(getNamespaceId(prefix, contractName)))
       THEN <<TextRange(nodes, namespaceStructEndCursor.pos)>>
       ELSE <<>>

\* replaceVariables: the edits of one block
replaceVariablesFirstOnly(nodes, blockPos, variables) ==
    LET identifiers == Select(nodes, blockPos + 1, SubtreeEnd(nodes, blockPos), TRUE,
                              {"Identifier"})
        matching == { k \in DOMAIN identifiers :
                        \E v \in DOMAIN variables :
                            variables[v].name = nodes[identifiers[k]].text }
    IN IF matching = {} THEN <<>>
       ELSE << TextEdit(slangToVSCodeRange(nodes,
                            TextRange(nodes, identifiers[SetMin(matching)])),
                        <<"$.", nodes[identifiers[SetMin(matching)]].text>>) >>

replaceVariables(nodes, blockPos, variables) ==
    LET identifiers == Select(nodes, blockPos + 1, SubtreeEnd(nodes, blockPos), TRUE,
                              {"Identifier"})
    IN Flatten([k \in DOMAIN identifiers |->
           IF \E v \in DOMAIN variables : variables[v].name = nodes[identifiers[k]].text
           THEN << TextEdit(slangToVSCodeRange(nodes, TextRange(nodes, identifiers[k])),
                            <<"$.", nodes[identifiers[k]].text>>) >>
           ELSE <<>>])

\* the line addStorageGetter looks for and inserts
ExpectedLine(contractName) ==
    <<contractName, "Storage storage $ = _get", contractName, "Storage();">>

\* addStorageGetter without the test for the line (quickfixes.ts:167)
addStorageGetterUnguarded(nodes, blockPos, contractName) ==
    LET openBraceCursor == GoToNext(nodes, Spawn(blockPos), TRUE, {"OpenBrace"})
    IN IF openBraceCursor.done THEN [threw |-> TRUE, edits |-> <<>>]
       ELSE [threw |-> FALSE,
             edits |-> << TextEdit(
                 slangToVSCodeRange(nodes, TextRange(nodes, openBraceCursor.pos)),
                 <<"{">> \o ExpectedLine(contractName)) >>]

\* addStorageGetter
addStorageGetter(nodes, blockPos, contractName) ==
    LET hasLine == \E j \in blockPos..SubtreeEnd(nodes, blockPos) :
                       nodes[j].term /\ nodes[j].kind = "StorageGetterLine"
        openBraceCursor == GoToNext(nodes, Spawn(blockPos), TRUE, {"OpenBrace"})
    IN IF hasLine THEN [threw |-> FALSE, edits |-> <<>>]
       ELSE IF openBraceCursor.done THEN [threw |-> TRUE, edits |-> <<>>]
       ELSE [threw |-> FALSE,
             edits |-> << TextEdit(
                 slangToVSCodeRange(nodes, TextRange(nodes, openBraceCursor.pos)),
                 <<"{">> \o ExpectedLine(contractName)) >>]

\* quickfixes.ts:144-161, one constructor or function
EditFunction(nodes, fn, contractName, variables) ==
    LET blockCursor ==
            IF nodes[fn].kind = "ConstructorDefinition"
            THEN GoToNext(nodes, Spawn(fn), FALSE, {"Block"})
            ELSE GoToNext(nodes, GoToNext(nodes, Spawn(fn), FALSE, {"FunctionBody"}),
                          FALSE, {"Block"})
        replaced == replaceVariables(nodes, blockCursor.pos, variables)
        getter == addStorageGetter(nodes, blockCursor.pos, contractName)
    IN IF replaced = <<>> THEN [threw |-> FALSE, edits |-> <<>>]
       ELSE [threw |-> getter.threw, edits |-> replaced \o getter.edits]

\* editNamespaceVariablesInFunctions
RECURSIVE EditFunctionsLoop(_, _, _, _, _)
EditFunctionsLoop(nodes, functions, k, contractName, variables) ==
    IF k > Len(functions) THEN [threw |-> FALSE, edits |-> <<>>]
    ELSE LET one == EditFunction(nodes, functions[k], contractName, variables)
             rest == EditFunctionsLoop(nodes, functions, k + 1, contractName, variables)
         IN IF one.threw THEN [threw |-> TRUE, edits |-> <<>>]
            ELSE [threw |-> rest.threw, edits |-> one.edits \o rest.edits]

editNamespaceVariablesInFunctions(nodes, ci, contractName, variables) ==
    EditFunctionsLoop(nodes,
        Select(nodes, ci + 1, SubtreeEnd(nodes, ci), FALSE,
               {"ConstructorDefinition", "FunctionDefinition"}),
        1, contractName, variables)

\* editNewNamespace
editNewNamespaceDeleteAll(memo, prefix, contractName, variables) ==
    << TextEdit(variables[1].range,
                printNamespaceTemplate(memo,
                    [contractName |-> contractName, prefix |-> prefix,
                     variables |-> variables])) >>
    \o [k \in 1..Len(variables) |-> TextEdit(variables[k].range, <<>>)]

editNewNamespace(memo, prefix, contractName, variables) ==
    << TextEdit(variables[1].range,
                printNamespaceTemplate(memo,
                    [contractName |-> contractName, prefix |-> prefix,
                     variables |-> variables])) >>
    \o [k \in 1..(Len(variables) - 1) |-> TextEdit(variables[k + 1].range, <<>>)]

\* editExistingNamespace
editExistingNamespace(nodes, variables, structEndRange) ==
    Flatten([k \in DOMAIN variables |->
        << TextEdit(variables[k].range, <<>>),
           TextEdit(slangToVSCodeRange(nodes, structEndRange),
                    variables[k].content \o <<"}">>) >>])

\* quickfixes.ts:31-56: the first valid contract named contractName, 0 when the
\* loop ends without one
MatchingContract(nodes, d, contracts, contractName) ==
    LET matching == { k \in DOMAIN contracts :
                        /\ d[nodes[contracts[k]].c].valid
                        /\ d[nodes[contracts[k]].c].name = contractName }
    IN IF matching = {} THEN 0 ELSE contracts[SetMin(matching)]

\* quickfixes.ts:50-78: the code action from what the loop found, [threw, action]
\* with action <<>> standing for undefined
MoveAllVariablesAction(nodes, memo, fixesDiagnostics, title, prefix, contractName, variables, namespaceStructEndRange, inFunctions) ==
    IF inFunctions.threw THEN [threw |-> TRUE, action |-> <<>>]
    ELSE IF Len(variables) = 0 THEN [threw |-> FALSE, action |-> <<>>]
    ELSE [threw |-> FALSE,
          action |-> << [title |-> title,
                         edits |-> inFunctions.edits
                             \o (IF namespaceStructEndRange = <<>>
                                 THEN editNewNamespace(memo, prefix, contractName, variables)
                                 ELSE editExistingNamespace(nodes, variables,
                                                            namespaceStructEndRange[1])),
                         diagnostics |-> fixesDiagnostics] >>]

\* quickfixes.ts:46-56: the contract the loop stops at, node ci (0: none)
MoveAllVariablesAt(nodes, d, ci, memo, fixesDiagnostics, title, prefix, contractName, variables) ==
    IF ci = 0
    THEN MoveAllVariablesAction(nodes, memo, fixesDiagnostics, title, prefix, contractName,
             variables, <<>>, [threw |-> FALSE, edits |-> <<>>])
    ELSE MoveAllVariablesAction(nodes, memo, fixesDiagnostics, title, prefix, contractName,
             variables,
             getNamespaceStructEndRange(nodes, ci, d[nodes[ci].c], prefix, contractName),
             editNamespaceVariablesInFunctions(nodes, ci, contractName, variables))

\* quickfixes.ts:23-31: the document parsed again
MoveAllVariablesIn(nodes, d, memo, fixesDiagnostics, title, prefix, contractName, variables) ==
    MoveAllVariablesAt(nodes, d,
        MatchingContract(nodes, d,
            Select(nodes, 2, Len(nodes), FALSE, {"ContractDefinition"}), contractName),
        memo, fixesDiagnostics, title, prefix, contractName, variables)

getMoveAllVariablesToNamespaceQuickFix(d, memo, fixesDiagnostics, title, prefix, contractName, variables) ==
    MoveAllVariablesIn(SourceUnitNodes(d), d, memo, fixesDiagnostics, title, prefix,
                       contractName, variables)


(***************************************************************************)
(* server.ts: getCodeActions and getQuickFixReplacement                    *)
(***************************************************************************)
getQuickFixReplacement(fixesDiagnostics, title, range, replacement) ==
    [title |-> title, edits |-> << TextEdit(range, replacement) >>,
     diagnostics |-> fixesDiagnostics]

ReplacementTitle(code) ==
    CASE code = NAMESPACE_ID_MISMATCH -> "Replace namespace id"
      [] code = NAMESPACE_ID_MISMATCH_HASH_COMMENT -> "Replace namespace comment"
      [] code = NAMESPACE_HASH_MISMATCH -> "Recalculate hash using comment"
      [] OTHER -> "Recalculate hash using expected id"

\* server.ts:261-290, the body of the loop for one diagnostic: [threw, actions].
\* Reading a field of data that is undefined throws a TypeError.
CodeActionsFor(d, memo, prefix, diagnostics, diagnostic) ==
    IF diagnostic.code \in {NAMESPACE_ID_MISMATCH, NAMESPACE_ID_MISMATCH_HASH_COMMENT,
                            NAMESPACE_HASH_MISMATCH, NAMESPACE_STANDALONE_HASH_MISMATCH}
    THEN IF ~diagnostic.data.present THEN [threw |-> TRUE, actions |-> <<>>]
         ELSE [threw |-> FALSE,
               actions |-> << getQuickFixReplacement(<<diagnostic>>,
                                  ReplacementTitle(diagnostic.code), diagnostic.range,
                                  diagnostic.data.replacement) >>]
    ELSE IF diagnostic.code = CONTRACT_CAN_BE_NAMESPACED
    THEN IF ~diagnostic.data.present THEN [threw |-> TRUE, actions |-> <<>>]
         ELSE LET quickfix == getMoveAllVariablesToNamespaceQuickFix(d, memo, diagnostics,
                                  "Move all variables to namespace", prefix,
                                  diagnostic.data.name, diagnostic.data.variables)
              IN [threw |-> quickfix.threw, actions |-> quickfix.action]
    ELSE [threw |-> FALSE, actions |-> <<>>]

\* server.ts:259-294, the try block around the loop: the catch ends the loop at
\* the first diagnostic whose iteration throws and keeps the code actions pushed
\* so far; one[i] is what the i-th iteration does
CodeActionsLoop(one) ==
    LET caught == { i \in DOMAIN one : one[i].threw }
    IN Flatten([i \in 1..(IF caught = {} THEN Len(one) ELSE SetMin(caught) - 1) |->
                   one[i].actions])

getCodeActions(d, memo, prefix, diagnostics) ==
    CodeActionsLoop([i \in DOMAIN diagnostics |->
                        CodeActionsFor(d, memo, prefix, diagnostics, diagnostics[i])])


(***************************************************************************)
(* The client applies the edit of a code action to the document.  Every     *)
(* edit is looked up by its range: the range of a variable declaration, of  *)
(* the closing brace of a struct, of an identifier of a body, of the        *)
(* opening brace of a block.                                               *)
(***************************************************************************)
\* the names printNamespaceTemplate composes from the contract's name
StructName(contractName) ==
    CASE contractName = "Foo" -> "FooStorage" [] contractName = "Bar" -> "BarStorage"

LocationName(contractName) ==
    CASE contractName = "Foo" -> "FooStorageLocation"
      [] contractName = "Bar" -> "BarStorageLocation"

GetterName(contractName) ==
    CASE contractName = "Foo" -> "_getFooStorage" [] contractName = "Bar" -> "_getBarStorage"

\* the first position after from where the text holds atom
IndexOf(text, atom, from) == SetMin({ k \in (from + 1)..Len(text) : text[k] = atom })

\* the names of the fields declared in a text
RECURSIVE NamesIn(_)
NamesIn(text) ==
    IF text = <<>> THEN <<>>
    ELSE (IF \E n \in DOMAIN VarNames : VarNames[n] = Head(text)
          THEN << Head(text) >> ELSE <<>>) \o NamesIn(Tail(text))

\* the declarations a namespace block (printNamespaceTemplate) parses to
BlockMembers(text) ==
    LET atStruct == IndexOf(text, "struct", 0)
        open == IndexOf(text, "{", atStruct)
        close == IndexOf(text, "}", open)
        atComment == IndexOf(text, FormulaComment(<<>>)[1], close)
        endComment == IndexOf(text, FormulaComment(<<>>)[2], atComment)
        atEqual == IndexOf(text, "=", endComment)
        atSemicolon == IndexOf(text, ";", atEqual)
        contractName == text[atStruct + 1]
    IN << Struct(SubSeq(text, 2, atStruct - 1), StructName(contractName),
                 NamesIn(SubSeq(text, open, close))),
          StateVar(SubSeq(text, atComment + 1, endComment - 1), <<"private", "constant">>,
                   LocationName(contractName), SubSeq(text, atEqual + 1, atSemicolon - 1)),
          Function(GetterName(contractName), <<>>, <<>>) >>

\* the first node of member m of contract c
MemberNode(nodes, c, m) == SetMin({ j \in DOMAIN nodes : nodes[j].c = c /\ nodes[j].m = m })

\* the edits on a range, as indices in order
EditsOn(edits, range) == { e \in DOMAIN edits : edits[e].range = range }

RangeOf(nodes, j) == slangToVSCodeRange(nodes, TextRange(nodes, j))

\* the identifier an entry of a body is read from: the node of its statement
StatementsOf(nodes, i) ==
    Select(nodes, i, SubtreeEnd(nodes, i), FALSE,
           {"ExpressionStatement", "VariableDeclarationStatement"})

EntryToken(nodes, statement) == SetMin(Following(nodes, Spawn(statement), TRUE,
                                           {"Identifier", "StorageGetterLine"}))

\* a variable declaration: replaced by the namespace block, deleted, or kept
ApplyToVariable(nodes, i, mem, edits) ==
    LET hits == EditsOn(edits, slangToVSCodeRange(nodes, getTrimmedRange(nodes, i)))
    IN IF hits = {} THEN <<mem>>
       ELSE IF edits[SetMin(hits)].newText = <<>> THEN <<>>
       ELSE BlockMembers(edits[SetMin(hits)].newText)

\* a struct: the declarations written over its closing brace become fields
ApplyToStruct(nodes, i, mem, edits) ==
    LET brace == SetMax({ j \in i..SubtreeEnd(nodes, i) : nodes[j].kind = "CloseBrace" })
        hits == EditsOn(edits, RangeOf(nodes, brace))
    IN IF hits = {} THEN <<mem>>
       ELSE << [mem EXCEPT !.fields = @ \o NamesIn(edits[SetMin(hits)].newText)] >>

\* a constructor or function with a block: identifiers rewritten, the accessor
\* line written after the opening brace
ApplyToFunction(nodes, i, mem, edits) ==
    LET statements == StatementsOf(nodes, i)
        brace == SetMin({ j \in i..SubtreeEnd(nodes, i) : nodes[j].kind = "OpenBrace" })
        body == [k \in DOMAIN mem.body |->
                    IF EditsOn(edits, RangeOf(nodes, EntryToken(nodes, statements[k]))) # {}
                    THEN Qualify(mem.body[k]) ELSE mem.body[k]]
    IN << [mem EXCEPT !.body =
              (IF EditsOn(edits, RangeOf(nodes, brace)) # {} THEN <<"$line">> ELSE <<>>)
              \o body] >>

ApplyToMember(nodes, c, m, mem, edits) ==
    CASE mem.kind = "var" -> ApplyToVariable(nodes, MemberNode(nodes, c, m), mem, edits)
      [] mem.kind = "struct" -> ApplyToStruct(nodes, MemberNode(nodes, c, m), mem, edits)
      [] mem.kind \in {"func", "ctor"} /\ mem.hasBlock ->
             ApplyToFunction(nodes, MemberNode(nodes, c, m), mem, edits)
      [] OTHER -> <<mem>>

\* the ranges the edits of a fix can be applied at
EditTargets(nodes, d) ==
    UNION { UNION { LET mem == d[c].members[m]
                        i == MemberNode(nodes, c, m)
                    IN CASE mem.kind = "var" ->
                               { slangToVSCodeRange(nodes, getTrimmedRange(nodes, i)) }
                         [] mem.kind = "struct" ->
                               { RangeOf(nodes, SetMax({ j \in i..SubtreeEnd(nodes, i) :
                                                           nodes[j].kind = "CloseBrace" })) }
                         [] mem.kind \in {"func", "ctor"} /\ mem.hasBlock ->
                               { RangeOf(nodes, SetMin({ j \in i..SubtreeEnd(nodes, i) :
                                                           nodes[j].kind = "OpenBrace" })) }
                               \cup { RangeOf(nodes, EntryToken(nodes, StatementsOf(nodes, i)[k])) :
                                        k \in { n \in DOMAIN mem.body :
                                                   \E v \in DOMAIN VarNames :
                                                       VarNames[v] = mem.body[n] } }
                         [] OTHER -> {}
                    : m \in DOMAIN d[c].members }
            : c \in DOMAIN d }

\* the document after the edits
ApplyEdits(d, edits) ==
    LET nodes == SourceUnitNodes(d)
    IN [c \in DOMAIN d |->
           [d[c] EXCEPT !.members =
               Flatten([m \in DOMAIN d[c].members |->
                           ApplyToMember(nodes, c, m, d[c].members[m], edits)])]]


(***************************************************************************)
(* The digests of the identifiers the server hashes: keccak256 as a table  *)
(* that gives different inputs different digests.                          *)
(***************************************************************************)
HashedIds == << <<"Foo">>, <<"app", ".", "Foo">>, <<"Bar">>, <<"app", ".", "Bar">>,
                <<"other">>, <<"my app", ".", "Foo">> >>

DigestAt(k) ==
    NibblesToBuffer([i \in 1..HashNibbles |-> IF i = 1 THEN k ELSE (3 * i + 7) % 16])

FixedKeccak ==
    LET n == Len(HashedIds)
        texts == { Utf8(HashedIds[k]) : k \in 1..n }
        buffers == { MinusOneBuffer(DigestAt(k)) : k \in 1..n }
    IN [x \in texts \cup buffers |->
           IF x \in texts
           THEN DigestAt(CHOOSE k \in 1..n : Utf8(HashedIds[k]) = x)
           ELSE DigestAt(n + (CHOOSE k \in 1..n : MinusOneBuffer(DigestAt(k)) = x))]

Prefixes == {"", "app"}

\* the prefixes of the specification that applies fixes: the setting is any
\* string, here also one with a space
ApplyPrefixes == Prefixes \cup {"my app"}

(***************************************************************************)
(* The documents of the analysis specification: one contract with up to    *)
(* MaxMembers members, alone or, with at most one member, followed by a    *)
(* second contract.                                                        *)
(***************************************************************************)
MaxMembers == 2

AttributeLists == { <<>>, <<"public">>, <<"constant">>, <<"public", "immutable">> }

AnalysisMembers(k) ==
    { StateVar(<<>>, attrs, VarNames[k], value) :
        attrs \in AttributeLists, value \in { <<>>, <<"1">> } }
    \cup { Function("_authorizeUpgrade", << Param("address", "impl") >>, <<>>),
           Function("f", <<>>, << VarNames[1] >>) }

RECURSIVE MemberLists(_)
MemberLists(n) ==
    IF n = 0 THEN { <<>> }
    ELSE MemberLists(n - 1)
         \cup { Append(ms, mem) :
                  ms \in { l \in MemberLists(n - 1) : Len(l) = n - 1 },
                  mem \in AnalysisMembers(n) }

SecondContract ==
    Contract("Bar", TRUE, <<>>, << "UUPSUpgradeable" >>,
        << StateVar(<<>>, <<>>, "a", <<>>), StateVar(<<>>, <<"private">>, "b", <<>>),
           Function("f", <<>>, << "a" >>) >>)

\* the leading comment and the inheritance list of the first contract
ContractHeads ==
    { << <<>>, <<>> >>,
      << <<"///", "@custom:oz-upgrades">>, <<>> >>,
      << <<>>, <<"Initializable">> >>,
      << <<>>, <<"Ownable">> >> }

AnalysisContracts ==
    { Contract("Foo", TRUE, head[1], head[2], members) :
        head \in ContractHeads, members \in MemberLists(MaxMembers) }
    \cup { Contract("Foo", FALSE, <<>>, <<"Initializable">>, members) :
             members \in MemberLists(1) }

AnalysisDocs ==
    { <<con>> : con \in AnalysisContracts }
    \cup { <<con, SecondContract>> :
             con \in { x \in AnalysisContracts : Len(x.members) <= 1 } }

(***************************************************************************)
(* The documents of the server specification: contract Foo with an optional *)
(* namespace struct, up to MaxVars state variables and some functions,      *)
(* alone or, with at most one variable, before or after a second contract.  *)
(***************************************************************************)
MaxVars == 2

MaxRequest == 2

FixStructs ==
    { <<>>,
      << Struct(getNamespaceId("app", "Foo"), "FooStorage", <<"x">>) >> }

RECURSIVE FixVars(_)
FixVars(n) ==
    IF n = 0 THEN { <<>> }
    ELSE FixVars(n - 1)
         \cup { Append(vs, StateVar(<<>>, attrs, VarNames[n], <<>>)) :
                  vs \in { l \in FixVars(n - 1) : Len(l) = n - 1 },
                  attrs \in IF n = 1 THEN { <<>>, <<"public">> } ELSE { <<>> } }

FixFunctions ==
    { <<>>,
      << Function("f", <<>>, <<"a">>) >>,
      << Function("f", <<>>, <<"$line", "a", "b">>) >>,
      << BodylessFunction("g", << Param("uint256", "a") >>) >>,
      << Constructor(<<"a">>), Function("f", <<>>, <<"b", "x">>) >> }

\* what the contract declares before its struct
FixFronts == { <<>>, << Function("h", <<>>, <<>>) >> }

FixContracts ==
    { Contract("Foo", TRUE, <<>>, parents, front \o structs \o variables \o functions) :
        parents \in { <<>>, <<"Initializable">> },
        front \in FixFronts,
        structs \in FixStructs,
        variables \in FixVars(MaxVars),
        functions \in FixFunctions }

\* the contracts that stand next to a second contract
FixNeighbours ==
    { con \in FixContracts :
        Cardinality({ m \in DOMAIN con.members : con.members[m].kind = "var" }) <= 1 }

FixDocs ==
    { <<con>> : con \in FixContracts }
    \cup { <<con, SecondContract>> : con \in FixNeighbours }
    \cup { <<SecondContract, con>> : con \in FixNeighbours }

(***************************************************************************)
(* The versions of the document of a session: contract Foo with one or two  *)
(* variables, with a function, with a struct annotated for another          *)
(* namespace, with a syntax error, next to a second contract, and gone.     *)
(***************************************************************************)
SessionDocs ==
    { << Contract("Foo", TRUE, <<>>, <<"Initializable">>,
            << StateVar(<<>>, <<>>, "a", <<>>), StateVar(<<>>, <<>>, "b", <<>>),
               Function("f", <<>>, <<"a">>) >>) >>,
      << Contract("Foo", TRUE, <<>>, <<"Initializable">>,
            << StateVar(<<>>, <<>>, "a", <<>>) >>) >>,
      << Contract("Foo", TRUE, <<>>, <<"Initializable">>,
            << Struct(<<"other">>, "FooStorage", <<"x">>),
               StateVar(<<>>, <<>>, "a", <<>>) >>) >>,
      << Contract("Foo", FALSE, <<>>, <<"Initializable">>,
            << StateVar(<<>>, <<>>, "a", <<>>), StateVar(<<>>, <<>>, "b", <<>>) >>) >>,
      << SecondContract,
         Contract("Foo", TRUE, <<>>, <<"Initializable">>,
            << StateVar(<<>>, <<>>, "a", <<>>), Function("f", <<>>, <<"a">>) >>) >>,
      << SecondContract >>,
      << Contract("Baz", TRUE, <<>>, <<>>, <<>>) >> }

(***************************************************************************)
(* The documents of the namespace specification: contract Foo, upgradeable  *)
(* or not, with an optional struct annotated for a namespace, a first       *)
(* variable with or without a formula comment, a storage location name and  *)
(* an initializer, and an optional second variable.                        *)
(***************************************************************************)
NamespaceIds == { getNamespaceId("app", "Foo"), getNamespaceId("", "Foo") }

NamespaceStructs ==
    { <<>>, << Struct(NoAnnotation, "FooStorage", <<"x">>) >> }
    \cup { << Struct(id, "FooStorage", <<"x">>) >> : id \in NamespaceIds }
    \cup { << Struct(NoAnnotation \o <<"\n">> \o id, "FooStorage", <<"x">>) >> :
             id \in NamespaceIds }

NamespaceFirstVars ==
    { StateVar(comment, <<"private", "constant">>, name, value) :
        comment \in { <<>>, NoAnnotation } \cup NamespaceIds,
        name \in { "FooStorageLocation", "a" },
        value \in { <<>> } \cup { SlotFromTable(FixedKeccak, id) : id \in NamespaceIds } }

NamespaceSecondVars ==
    { <<>>,
      << StateVar(<<>>, <<"private", "constant">>, "BarStorageLocation",
             SlotFromTable(FixedKeccak, getNamespaceId("", "Foo"))) >>,
      << StateVar(getNamespaceId("app", "Foo"), <<"private", "constant">>,
             "FOO_STORAGE_LOCATION", SlotFromTable(FixedKeccak, <<"other">>)) >> }

NamespaceDocs ==
    { << Contract("Foo", TRUE, <<>>, parents, structs \o <<first>> \o second) >> :
        parents \in { <<>>, <<"Initializable">> },
        structs \in NamespaceStructs,
        first \in NamespaceFirstVars,
        second \in NamespaceSecondVars }

(***************************************************************************)
(* The documents of the classifier specification: contract Foo with one     *)
(* plain variable, a documentation comment of up to two lines, an           *)
(* inheritance list and a function.                                        *)
(***************************************************************************)
ClassifierNatSpecs ==
    { <<>>,
      <<"///", "@title", "Foo">>,
      <<"///", "@custom:oz-upgrades">>,
      <<"///", "@custom:oz-upgrades-from", "Old">>,
      <<"///", "@custom:oz-upgrades-unsafe-allow", "constructor">>,
      <<"///", "@title", "Foo", "\n", "///", "@custom:oz-upgrades">>,
      <<"///", "@custom:oz-upgrades", "\n", "///", "@title", "Foo">> }

ClassifierParents ==
    { <<>>, <<"Initializable">>, <<"UUPSUpgradeable">>, <<"Ownable">>,
      <<"Ownable", "Initializable">>, <<"InitializableV2">> }

ClassifierFunctions ==
    { <<>>,
      << Function("_authorizeUpgrade", << Param("address", "impl") >>, <<>>) >>,
      << Function("_authorizeUpgrade", << Param("uint256", "impl") >>, <<>>) >>,
      << Function("_authorizeUpgrade", << Param("address", "impl"), Param("address", "by") >>, <<>>) >>,
      << Function("_authorizeUpgrade", <<>>, <<>>) >>,
      << Function("authorizeUpgrade", << Param("address", "impl") >>, <<>>) >>,
      << BodylessFunction("_authorizeUpgrade", << Param("address", "impl") >>) >> }

ClassifierDocs ==
    { << Contract("Foo", TRUE, natspec, parents,
            << StateVar(<<>>, <<>>, "a", <<>>) >> \o functions) >> :
        natspec \in ClassifierNatSpecs,
        parents \in ClassifierParents,
        functions \in ClassifierFunctions }

(***************************************************************************)
(* The documents a fix is applied to: contract Foo with up to MaxVars       *)
(* variables followed by functions that use a and b.                       *)
(***************************************************************************)
ApplyFunctions ==
    { << Function("f", <<>>, <<"a", "b">>) >>,
      << Constructor(<<"a">>), Function("f", <<>>, <<"b", "x">>) >>,
      << Function("f", <<>>, <<"x">>), Function("g", <<>>, <<"b", "a", "b">>) >> }

ApplyDocs ==
    { << Contract("Foo", TRUE, <<>>, <<"Initializable">>, variables \o functions) >> :
        variables \in FixVars(MaxVars),
        functions \in ApplyFunctions }

(***************************************************************************)
(* The server's handlers                                                   *)
(***************************************************************************)
\* connection.languages.diagnostics.on: validateTextDocument(document)
OnDiagnostics ==
    /\ ~analysed
    /\ published' = validateNamespaces(doc, resolvedPrefix, keccakMemo)
    /\ analysed' = TRUE
    /\ UNCHANGED <<slotVars, taskVars, doc, resolvedPrefix, answered, request, codeActions>>

\* the sub-sequences of at most n elements of a sequence
RECURSIVE SubSequences(_, _)
SubSequences(q, n) ==
    IF q = <<>> \/ n = 0 THEN { <<>> }
    ELSE SubSequences(Tail(q), n)
         \cup { <<Head(q)>> \o r : r \in SubSequences(Tail(q), n - 1) }

\* connection.onCodeAction: the client asks for the fixes of up to MaxRequest of
\* the diagnostics it was last sent, which it keeps when the document changes
OnCodeAction ==
    /\ ~answered
    /\ \E diagnostics \in SubSequences(published, MaxRequest) :
         /\ request' = diagnostics
         /\ codeActions' = getCodeActions(doc, keccakMemo, resolvedPrefix, diagnostics)
    /\ answered' = TRUE
    /\ UNCHANGED <<slotVars, taskVars, doc, resolvedPrefix, analysed, published>>

\* connection.onCodeAction with one ContractCanBeNamespaced diagnostic of the
\* last analysis whose data the client sends back with any sub-list of its
\* variables, the empty one included: getCodeActions hands data.variables to
\* getMoveAllVariablesToNamespaceQuickFix as it arrives
OnMoveAllVariables ==
    /\ analysed /\ ~answered
    /\ \E k \in DOMAIN published :
         /\ published[k].code = CONTRACT_CAN_BE_NAMESPACED
         /\ \E variables \in SubSequences(published[k].data.variables, MaxVars) :
              /\ request' = << [published[k] EXCEPT !.data.variables = variables] >>
              /\ codeActions' = getCodeActions(doc, keccakMemo, resolvedPrefix, request')
    /\ answered' = TRUE
    /\ UNCHANGED <<slotVars, taskVars, doc, resolvedPrefix, analysed, published>>

\* documents.onDidChangeContent: the document has new text; the diagnostics
\* validateTextDocument computes here are dropped, the client keeps the ones it
\* has until it asks again
OnDidChangeContent ==
    /\ \E d \in SessionDocs \ {doc} : doc' = d
    /\ analysed' = FALSE
    /\ answered' = FALSE
    /\ request' = <<>>
    /\ codeActions' = <<>>
    /\ UNCHANGED <<slotVars, taskVars, resolvedPrefix, published>>

\* The client applies the edit of one of the code actions it was returned, for
\* diagnostics of the current document, and the document changes
\* (documents.onDidChangeContent).  An edit set with intersecting ranges is
\* not applied.
OnApplyEdit ==
    /\ analysed /\ answered
    /\ \E k \in DOMAIN codeActions :
         /\ codeActions[k].edits # <<>>
         /\ ~HasIntersectingEdits(codeActions[k])
         /\ \A e \in DOMAIN codeActions[k].edits :
                codeActions[k].edits[e].range \in EditTargets(SourceUnitNodes(doc), doc)
         /\ doc' = ApplyEdits(doc, codeActions[k].edits)
    /\ analysed' = FALSE
    /\ published' = <<>>
    /\ answered' = FALSE
    /\ request' = <<>>
    /\ codeActions' = <<>>
    /\ UNCHANGED <<slotVars, taskVars, resolvedPrefix>>

\* the names contract con declares, as variables or as fields of a struct
DeclaredNames(con) ==
    { con.members[m].name : m \in { k \in DOMAIN con.members : con.members[k].kind = "var" } }
    \cup UNION { { con.members[m].fields[f] : f \in DOMAIN con.members[m].fields } :
                   m \in { k \in DOMAIN con.members : con.members[k].kind = "struct" } }

\* The user declares one more state variable at the end of the contract
\* (documents.onDidChangeContent); the diagnostics are asked for again.
OnDeclareVariable ==
    /\ \E n \in 1..MaxVars :
         /\ VarNames[n] \notin DeclaredNames(doc[1])
         /\ doc' = [doc EXCEPT ![1].members = Append(@, StateVar(<<>>, <<>>, VarNames[n], <<>>))]
    /\ analysed' = FALSE
    /\ published' = <<>>
    /\ answered' = FALSE
    /\ request' = <<>>
    /\ codeActions' = <<>>
    /\ UNCHANGED <<slotVars, taskVars, resolvedPrefix>>

(***************************************************************************)
(* The handlers as the event loop runs them.  validateTextDocument and the  *)
(* code-action handler are async functions: a task is one invocation that   *)
(* is suspended at an await.  Awaiting a promise that is already resolved   *)
(* continues in a microtask, before any other message is handled; awaiting  *)
(* a pending configuration request or the file system lets the handlers of  *)
(* other messages run.  The client supports workspace/configuration         *)
(* (hasConfigurationCapability), so the settings come from the cache.       *)
(***************************************************************************)
\* the one document of the workspace
Uri == "Foo.sol"

\* number of handler invocations suspended at the same time
MaxTasks == 2

\* number of configuration requests that are pending or cached at the same time
MaxConfigurationRequests == 3

FreeRequest == [state |-> "free", namespacePrefix |-> ""]
PendingRequest == [state |-> "pending", namespacePrefix |-> ""]
ResolvedRequest(namespacePrefix) == [state |-> "resolved", namespacePrefix |-> namespacePrefix]

NoSettings == [resource \in {} |-> 0]
NoRequests == [id \in 1..MaxConfigurationRequests |-> FreeRequest]
NoPass == [tree |-> <<>>, sites |-> <<>>, reads |-> <<>>]

\* the state the handlers share
Server ==
    [documentSettings |-> documentSettings, configurationRequests |-> configurationRequests,
     tasks |-> tasks, analysed |-> analysed, published |-> published,
     answered |-> answered, request |-> request, codeActions |-> codeActions,
     lastPass |-> lastPass]

\* the configuration requests the cache or a suspended task refers to
Held(S) ==
    ({ S.documentSettings[resource] : resource \in DOMAIN S.documentSettings }
     \cup { S.tasks[t].awaits : t \in DOMAIN S.tasks }) \ {0}

\* getDocumentSettings(resource): the cache after the call; the promise
\* returned is the one the cache then holds for the resource
getDocumentSettings(S, resource) ==
    IF resource \in DOMAIN S.documentSettings THEN S
    ELSE [S EXCEPT
            !.configurationRequests[SetMin((1..MaxConfigurationRequests) \ Held(S))] =
                PendingRequest,
            !.documentSettings =
                [r \in DOMAIN S.documentSettings \cup {resource} |->
                    IF r = resource THEN SetMin((1..MaxConfigurationRequests) \ Held(S))
                    ELSE S.documentSettings[r]]]

\* An invocation of validateTextDocument (handler "validate" for
\* onDidChangeContent, whose result is dropped, "diagnostics" for a diagnostics
\* request) or of getCodeActions ("codeAction").  stage: "settings" while
\* inferSolidityVersion awaits the settings, "files" while it reads the
\* project's configuration files, "walk" from the parse on.  textDocument is the
\* text of the TextDocument object the invocation holds, which the document
\* manager updates in place while the document stays open (attached).  sites
\* are the calls of getNamespacePrefix the invocation makes, reads what they
\* gave: for a pass the prefix, for getCodeActions what the iteration made of it.
Task(handler, stage, textDocument, diagnostics, sites) ==
    [handler |-> handler, stage |-> stage, awaits |-> 0, attached |-> TRUE,
     textDocument |-> textDocument, tree |-> <<>>, sites |-> sites,
     request |-> diagnostics, reads |-> <<>>]

\* the elements of a set of numbers in ascending order
Ascending(S) ==
    [k \in 1..Cardinality(S) |-> CHOOSE j \in S : Cardinality({ x \in S : x <= j }) = k]

\* server.ts:262-281, the iteration for a diagnostic throws before any await
ThrowsAtOnce(diagnostic) ==
    /\ diagnostic.code \in {NAMESPACE_ID_MISMATCH, NAMESPACE_ID_MISMATCH_HASH_COMMENT,
                            NAMESPACE_HASH_MISMATCH, NAMESPACE_STANDALONE_HASH_MISMATCH}
    /\ ~diagnostic.data.present

\* server.ts:284, the diagnostics of a request at which getCodeActions awaits
\* getNamespacePrefix
CodeActionSites(diagnostics) ==
    Ascending({ i \in DOMAIN diagnostics :
                  /\ diagnostics[i].code = CONTRACT_CAN_BE_NAMESPACED
                  /\ \A j \in 1..(i - 1) : ~ThrowsAtOnce(diagnostics[j]) })

\* what the task does with the prefix its next site resolved to; the
\* diagnostics of a pass that onDidChangeContent started are dropped
\* (server.ts:185) and so is the prefix
Resolve(task, namespacePrefix, memo) ==
    IF task.handler = "codeAction"
    THEN Append(task.reads,
             CodeActionsFor(task.textDocument, memo, namespacePrefix, task.request,
                            task.request[task.sites[Len(task.reads) + 1]]))
    ELSE IF task.handler = "validate" THEN Append(task.reads, "")
    ELSE Append(task.reads, namespacePrefix)

\* no call of getNamespacePrefix is left: every site is resolved, or the
\* iteration of getCodeActions threw
Finished(task) ==
    \/ Len(task.reads) = Len(task.sites)
    \/ /\ task.handler = "codeAction"
       /\ task.reads # <<>>
       /\ task.reads[Len(task.reads)].threw

\* server.ts:257-297, the code actions a finished invocation returns
Reply(task, memo) ==
    CodeActionsLoop([i \in DOMAIN task.request |->
        IF \E k \in DOMAIN task.reads : task.sites[k] = i
        THEN task.reads[CHOOSE k \in DOMAIN task.reads : task.sites[k] = i]
        ELSE IF task.request[i].code = CONTRACT_CAN_BE_NAMESPACED
        THEN [threw |-> TRUE, actions |-> <<>>]
        ELSE CodeActionsFor(task.textDocument, memo, "", task.request, task.request[i])])

\* the invocation returns: a diagnostics request is answered with the pass's
\* diagnostics, which replace the ones the client had and the code actions it
\* was returned for them; a code-action request with its code actions
Complete(S, t, memo) ==
    CASE S.tasks[t].handler = "validate" -> [S EXCEPT !.tasks[t].stage = "done"]
      [] S.tasks[t].handler = "diagnostics" ->
             [S EXCEPT !.tasks[t].stage = "done",
                       !.analysed = TRUE,
                       !.answered = FALSE, !.request = <<>>, !.codeActions = <<>>,
                       !.published = validateNamespacesWalk(S.tasks[t].tree, S.tasks[t].sites,
                                                            S.tasks[t].reads, memo),
                       !.lastPass = [tree |-> S.tasks[t].tree, sites |-> S.tasks[t].sites,
                                     reads |-> S.tasks[t].reads]]
      [] OTHER ->
             [S EXCEPT !.tasks[t].stage = "done",
                       !.answered = TRUE,
                       !.request = S.tasks[t].request,
                       !.codeActions = Reply(S.tasks[t], memo)]

\* The task runs on from where it is until it returns or awaits a promise that
\* is not resolved: at each site getNamespacePrefix calls getDocumentSettings
\* (settings.ts:13).
RECURSIVE Walk(_, _, _)
Awaiting(asked, t, id, memo) ==
    IF asked.configurationRequests[id].state = "resolved"
    THEN Walk([asked EXCEPT !.tasks[t].reads =
                   Resolve(asked.tasks[t], asked.configurationRequests[id].namespacePrefix,
                           memo)], t, memo)
    ELSE [asked EXCEPT !.tasks[t].awaits = id]

Asked(asked, t, memo) == Awaiting(asked, t, asked.documentSettings[Uri], memo)

Walk(S, t, memo) ==
    IF Finished(S.tasks[t]) THEN Complete(S, t, memo)
    ELSE Asked(getDocumentSettings(S, Uri), t, memo)

\* server.ts:197, the text is parsed and the walk starts
Parse(S, t, memo) ==
    Walk([S EXCEPT !.tasks[t].stage = "walk",
                   !.tasks[t].tree = S.tasks[t].textDocument,
                   !.tasks[t].sites = PrefixSites(S.tasks[t].textDocument)], t, memo)

\* the promise a suspended task awaits is resolved
Resume(S, t, memo) ==
    IF S.tasks[t].stage = "settings"
    THEN [S EXCEPT !.tasks[t].awaits = 0, !.tasks[t].stage = "files"]
    ELSE Walk([S EXCEPT !.tasks[t].awaits = 0,
                        !.tasks[t].reads =
                            Resolve(S.tasks[t],
                                S.configurationRequests[S.tasks[t].awaits].namespacePrefix,
                                memo)], t, memo)

\* the tasks that await request id run on, one after the other
RECURSIVE ResumeFrom(_, _, _, _)
ResumeFrom(S, id, t, memo) ==
    IF t > Len(S.tasks) THEN S
    ELSE ResumeFrom(IF S.tasks[t].awaits = id THEN Resume(S, t, memo) ELSE S,
                    id, t + 1, memo)

\* server.ts:193-196, validateTextDocument starts: inferSolidityVersion asks for
\* the document's settings (solidityVersion.ts:20)
Started(asked, t) ==
    IF asked.configurationRequests[asked.documentSettings[Uri]].state = "resolved"
    THEN [asked EXCEPT !.tasks[t].stage = "files"]
    ELSE [asked EXCEPT !.tasks[t].awaits = asked.documentSettings[Uri]]

validateTextDocument(S, handler, textDocument) ==
    Started(getDocumentSettings(
                [S EXCEPT !.tasks = Append(@, Task(handler, "settings", textDocument,
                                                   <<>>, <<>>))], Uri),
            Len(S.tasks) + 1)

\* the tasks that returned are gone, and so are the requests nothing refers to
IsSuspended(task) == task.stage # "done"

Released(S) ==
    [S EXCEPT !.configurationRequests =
        [id \in 1..MaxConfigurationRequests |->
            IF id \in Held(S) THEN S.configurationRequests[id] ELSE FreeRequest]]

Settled(S) == Released([S EXCEPT !.tasks = SelectSeq(S.tasks, IsSuspended)])

Becomes(S) ==
    /\ documentSettings' = S.documentSettings
    /\ configurationRequests' = S.configurationRequests
    /\ tasks' = S.tasks
    /\ analysed' = S.analysed
    /\ published' = S.published
    /\ answered' = S.answered
    /\ request' = S.request
    /\ codeActions' = S.codeActions
    /\ lastPass' = S.lastPass

\* the documents of the event loop specification: a contract with an annotated
\* struct and a constant with a formula comment, and a contract with one
\* variable that a function uses
ConcurrentDocs ==
    { << Contract("Foo", TRUE, <<>>, <<"Initializable">>,
            << Struct(getNamespaceId("app", "Foo"), "FooStorage", <<"x">>),
               StateVar(getNamespaceId("app", "Foo"), <<"private", "constant">>,
                        "a",
                        SlotFromTable(FixedKeccak, getNamespaceId("app", "Foo"))) >>) >>,
      << Contract("Foo", TRUE, <<>>, <<"Initializable">>,
            << StateVar(<<>>, <<>>, "a", <<>>), Function("f", <<>>, <<"a">>) >>) >> }

\* textDocument/didOpen: documents.onDidChangeContent fires (server.ts:184)
DidOpenTextDocument ==
    /\ Uri \notin documents
    /\ Len(tasks) < MaxTasks
    /\ documents' = documents \cup {Uri}
    /\ Becomes(Settled(validateTextDocument(Server, "validate", doc)))
    /\ UNCHANGED <<slotVars, doc, resolvedPrefix>>

\* textDocument/didChange: the document object is updated in place and
\* documents.onDidChangeContent fires (server.ts:184)
DidChangeTextDocument ==
    /\ Uri \in documents
    /\ Len(tasks) < MaxTasks
    /\ \E d \in ConcurrentDocs \ {doc} :
         /\ doc' = d
         /\ Becomes(Settled(validateTextDocument(
                [Server EXCEPT !.tasks =
                    [t \in DOMAIN tasks |->
                        IF tasks[t].attached THEN [tasks[t] EXCEPT !.textDocument = d]
                        ELSE tasks[t]]],
                "validate", d)))
    /\ UNCHANGED <<slotVars, resolvedPrefix, documents>>

\* textDocument/didClose: documents.onDidClose (server.ts:160)
DidCloseTextDocument ==
    /\ Uri \in documents
    /\ documents' = documents \ {Uri}
    /\ Becomes(Settled(
           [Server EXCEPT
               !.documentSettings = [r \in DOMAIN documentSettings \ {Uri} |->
                                        documentSettings[r]],
               !.tasks = [t \in DOMAIN tasks |-> [tasks[t] EXCEPT !.attached = FALSE]]]))
    /\ UNCHANGED <<slotVars, doc, resolvedPrefix>>

\* workspace/didChangeConfiguration: connection.onDidChangeConfiguration
\* (server.ts:129); the client answers later configuration requests with the
\* new settings
DidChangeConfiguration ==
    /\ \E namespacePrefix \in Prefixes : resolvedPrefix' = namespacePrefix
    /\ Becomes(Settled([Server EXCEPT !.documentSettings = NoSettings]))
    /\ UNCHANGED <<slotVars, doc, documents>>

\* textDocument/diagnostic: connection.languages.diagnostics.on (server.ts:165)
DiagnosticRequest ==
    /\ Len(tasks) < MaxTasks
    /\ IF Uri \in documents
       THEN Becomes(Settled(validateTextDocument(Server, "diagnostics", doc)))
       ELSE Becomes([Server EXCEPT !.analysed = TRUE, !.published = <<>>,
                                   !.answered = FALSE, !.request = <<>>,
                                   !.codeActions = <<>>, !.lastPass = NoPass])
    /\ UNCHANGED <<slotVars, doc, resolvedPrefix, documents>>

\* textDocument/codeAction: connection.onCodeAction (server.ts:240), for the
\* first MaxRequest diagnostics the client was last sent
CodeActionRequest ==
    /\ Len(tasks) < MaxTasks
    /\ \E diagnostics \in { SubSeq(published, 1, Min(Len(published), MaxRequest)) } :
         IF Uri \in documents
         THEN Becomes(Settled(Walk(
                  [Server EXCEPT !.tasks =
                      Append(@, Task("codeAction", "walk", doc, diagnostics,
                                     CodeActionSites(diagnostics)))],
                  Len(tasks) + 1, keccakMemo)))
         ELSE Becomes([Server EXCEPT !.answered = TRUE, !.request = diagnostics,
                                     !.codeActions = <<>>])
    /\ UNCHANGED <<slotVars, doc, resolvedPrefix, documents>>

\* the client answers a workspace/configuration request with its settings
ConfigurationResponse ==
    /\ \E id \in 1..MaxConfigurationRequests :
         /\ configurationRequests[id].state = "pending"
         /\ Becomes(Settled(ResumeFrom(
                [Server EXCEPT !.configurationRequests[id] = ResolvedRequest(resolvedPrefix)],
                id, 1, keccakMemo)))
    /\ UNCHANGED <<slotVars, doc, resolvedPrefix, documents>>

\* the file system answers inferSolidityVersion (solidityVersion.ts:26-36)
FilesRead ==
    /\ \E t \in DOMAIN tasks :
         /\ tasks[t].stage = "files"
         /\ Becomes(Settled(Parse(Server, t, keccakMemo)))
    /\ UNCHANGED <<slotVars, doc, resolvedPrefix, documents>>

ServerIdle ==
    /\ analysed = FALSE
    /\ published = <<>>
    /\ answered = FALSE
    /\ request = <<>>
    /\ codeActions = <<>>
    /\ documents = {Uri}
    /\ documentSettings = NoSettings
    /\ configurationRequests = NoRequests
    /\ tasks = <<>>
    /\ lastPass = NoPass

\* ------------------------------------------------------------------------
\* The slot calculator on its own
\* ------------------------------------------------------------------------
InitSlot ==
    /\ SlotInit
    /\ doc = <<>>
    /\ resolvedPrefix = ""
    /\ ServerIdle

NextSlot == \E id \in SlotIds : calculateERC7201StorageLocation(id)

SpecSlot == InitSlot /\ [][NextSlot]_vars

\* ------------------------------------------------------------------------
\* One analysis pass over a document
\* ------------------------------------------------------------------------
InitAnalysis ==
    /\ keccakMemo = FixedKeccak
    /\ slotLog = [id \in SlotIds |-> <<>>]
    /\ doc \in AnalysisDocs
    /\ resolvedPrefix = "app"
    /\ ServerIdle

NextAnalysis == OnDiagnostics

SpecAnalysis == InitAnalysis /\ [][NextAnalysis]_vars

\* ------------------------------------------------------------------------
\* One analysis pass over a document with namespace annotations, under either
\* prefix
\* ------------------------------------------------------------------------
InitNamespace ==
    /\ keccakMemo = FixedKeccak
    /\ slotLog = [id \in SlotIds |-> <<>>]
    /\ doc \in NamespaceDocs
    /\ resolvedPrefix \in Prefixes
    /\ ServerIdle

NextNamespace == OnDiagnostics

SpecNamespace == InitNamespace /\ [][NextNamespace]_vars

\* ------------------------------------------------------------------------
\* One analysis pass over a contract with upgradeable markers
\* ------------------------------------------------------------------------
InitClassifier ==
    /\ keccakMemo = FixedKeccak
    /\ slotLog = [id \in SlotIds |-> <<>>]
    /\ doc \in ClassifierDocs
    /\ resolvedPrefix = "app"
    /\ ServerIdle

NextClassifier == OnDiagnostics

SpecClassifier == InitClassifier /\ [][NextClassifier]_vars

\* ------------------------------------------------------------------------
\* The server: an analysis pass, then a code action request
\* ------------------------------------------------------------------------
InitServer ==
    /\ keccakMemo = FixedKeccak
    /\ slotLog = [id \in SlotIds |-> <<>>]
    /\ doc \in FixDocs
    /\ resolvedPrefix \in Prefixes
    /\ ServerIdle

NextServer == OnDiagnostics \/ OnCodeAction

SpecServer == InitServer /\ [][NextServer]_vars

\* ------------------------------------------------------------------------
\* A session: the document changes, is analysed and fixes are requested, in
\* any order
\* ------------------------------------------------------------------------
Init ==
    /\ keccakMemo = FixedKeccak
    /\ slotLog = [id \in SlotIds |-> <<>>]
    /\ doc \in SessionDocs
    /\ resolvedPrefix \in Prefixes
    /\ ServerIdle

Next == OnDidChangeContent \/ OnDiagnostics \/ OnCodeAction

Spec == Init /\ [][Next]_vars


\* ------------------------------------------------------------------------
\* Fixes applied in sequence: the document is analysed, a fix is requested
\* and applied, the user declares a variable, and again
\* ------------------------------------------------------------------------
InitApply ==
    /\ keccakMemo = FixedKeccak
    /\ slotLog = [id \in SlotIds |-> <<>>]
    /\ doc \in ApplyDocs
    /\ resolvedPrefix \in ApplyPrefixes
    /\ ServerIdle

NextApply == OnDiagnostics \/ OnCodeAction \/ OnApplyEdit \/ OnDeclareVariable

SpecApply == InitApply /\ [][NextApply]_vars


\* ------------------------------------------------------------------------
\* The "move all variables" fix on every list of variables a request can carry
\* ------------------------------------------------------------------------
InitQuickFix ==
    /\ keccakMemo = FixedKeccak
    /\ slotLog = [id \in SlotIds |-> <<>>]
    /\ doc \in FixDocs
    /\ resolvedPrefix \in Prefixes
    /\ ServerIdle

NextQuickFix == OnDiagnostics \/ OnMoveAllVariables

SpecQuickFix == InitQuickFix /\ [][NextQuickFix]_vars

\* ------------------------------------------------------------------------
\* The event loop: documents are opened, changed and closed, the settings
\* change, diagnostics and code actions are requested, and the suspended
\* invocations run on, in any order
\* ------------------------------------------------------------------------
InitConcurrent ==
    /\ keccakMemo = FixedKeccak
    /\ slotLog = [id \in SlotIds |-> <<>>]
    /\ doc \in ConcurrentDocs
    /\ resolvedPrefix \in Prefixes
    /\ analysed = FALSE
    /\ published = <<>>
    /\ answered = FALSE
    /\ request = <<>>
    /\ codeActions = <<>>
    /\ documents = {}
    /\ documentSettings = NoSettings
    /\ configurationRequests = NoRequests
    /\ tasks = <<>>
    /\ lastPass = NoPass

NextConcurrent ==
    \/ DidOpenTextDocument
    \/ DidChangeTextDocument
    \/ DidCloseTextDocument
    \/ DidChangeConfiguration
    \/ DiagnosticRequest
    \/ CodeActionRequest
    \/ ConfigurationResponse
    \/ FilesRead

SpecConcurrent == InitConcurrent /\ [][NextConcurrent]_vars

(***************************************************************************)
(* Properties of the slot calculator (SpecSlot)                            *)
(***************************************************************************)
SlotCalls == { <<id, k>> : id \in SlotIds, k \in 1..MaxSlotCalls }

Recorded == { ik \in SlotCalls : ik[2] <= Len(slotLog[ik[1]]) }

CallAt(ik) == slotLog[ik[1]][ik[2]]

\* C7: in every call the bytes given to the second hash are the shortest
\* unsigned big-endian encoding of h1 - 1: read back as a big-endian integer
\* they give h1 - 1.
C7_SecondHashInputIsMinimalEncoding ==
    \A ik \in Recorded :
        /\ BigEndianValue(CallAt(ik).minusOneBuffer) = MinusOne(CallAt(ik).firstHash)
        /\ CallAt(ik).minusOneBuffer = MinimalBigEndian(MinusOne(CallAt(ik).firstHash))

\* C8: every call returns "0x" followed by exactly 2 * HashBytes lowercase
\* hexadecimal characters (64 for the 32 bytes of Keccak-256), and all calls
\* with the same identifier return the same string.
C8_SlotIsDeterministicAndWellFormed ==
    \A ik \in Recorded :
        LET slot == CallAt(ik).slot
        IN /\ Len(slot) = 2 + HashNibbles
           /\ slot[1] = "0" /\ slot[2] = "x"
           /\ \A j \in 3..Len(slot) : IsHexChar(slot[j])
           /\ \A other \in Recorded : other[1] = ik[1] => CallAt(other).slot = slot

\* a second call for an identifier whose second hash starts with a zero digit
C8_Witness ==
    \E ik \in Recorded :
        /\ ik[2] = 2
        /\ CallAt(ik).secondHash[1] < 16
        /\ CallAt(ik).secondHash[HashBytes] >= 16

\* C9: the returned slot is the second hash with its low 8 bits cleared and
\* its other bits unchanged; the last byte of the slot is 00.
C9_SlotIsSecondHashWithLowByteCleared ==
    \A ik \in Recorded :
        LET slot == CallAt(ik).slot
            h2 == BufferToHex(CallAt(ik).secondHash)
        IN /\ SubSeq(slot, 3, Len(slot) - 2) = SubSeq(h2, 1, HashNibbles - 2)
           /\ SubSeq(slot, Len(slot) - 1, Len(slot)) = <<"0", "0">>
           /\ BigIntFromHex(SubSeq(slot, 3, Len(slot)))
                = BigEndianValue(CallAt(ik).secondHash)
                  - (BigEndianValue(CallAt(ik).secondHash) % 256)

\* a call whose second hash has a non-zero low byte with both nibbles set and
\* non-zero upper bits
C9_Witness ==
    \E ik \in Recorded :
        /\ CallAt(ik).secondHash[HashBytes] \div 16 # 0
        /\ CallAt(ik).secondHash[HashBytes] % 16 # 0
        /\ CallAt(ik).secondHash[1] # 0


(***************************************************************************)
(* Properties of an analysis pass (SpecAnalysis)                           *)
(***************************************************************************)
\* the node of contract c of the open document
ContractNode(c) ==
    Select(SourceUnitNodes(doc), 2, Len(SourceUnitNodes(doc)), FALSE,
           {"ContractDefinition"})[c]

\* the contracts the pass analyses, and what the classifier returns for them
Analysed(c) == doc[c].valid

Upgradeable(c) == inferUpgradeable(SourceUnitNodes(doc), ContractNode(c), doc[c])

StateVars(c) == { m \in DOMAIN doc[c].members : doc[c].members[m].kind = "var" }

IsConstantOrImmutable(v) ==
    \E k \in DOMAIN v.attrs : v.attrs[k] \in {"constant", "immutable"}

\* the published diagnostics of contract c with one of the codes
Reported(c, codes) ==
    { k \in DOMAIN published : published[k].c = c /\ published[k].code \in codes }

\* the published per-variable diagnostics of member m of contract c
ReportedVariable(c, m) ==
    { k \in Reported(c, {VARIABLE_CAN_BE_NAMESPACED, VARIABLE_HAS_INITIAL_VALUE}) :
        published[k].m = m }

NotExcluded(v) == ~IsConstantOrImmutable(v)

\* the names of the state variables of contract c from member m on that are
\* neither constant nor immutable, in declaration order; those with an
\* initializer are left out unless initialized is TRUE
RECURSIVE NamesFrom(_, _, _)
NamesFrom(c, m, initialized) ==
    IF m > Len(doc[c].members) THEN <<>>
    ELSE (IF /\ doc[c].members[m].kind = "var"
             /\ NotExcluded(doc[c].members[m])
             /\ (initialized \/ doc[c].members[m].value = <<>>)
          THEN << doc[c].members[m].name >> ELSE <<>>)
         \o NamesFrom(c, m + 1, initialized)

VariableNames(variables) == [k \in DOMAIN variables |-> variables[k].name]

Collected(c) ==
    validateNamespaceableVariables(SourceUnitNodes(doc), ContractNode(c), doc[c], c,
                                   TRUE).variables

\* C3: an upgradeable contract whose collected list has N > 0 variables gets
\* exactly one ContractCanBeNamespaced diagnostic, carrying the whole list; with
\* an empty list it gets none.
C3_OneContractDiagnosticPerContract ==
    analysed =>
        \A c \in DOMAIN doc : (Analysed(c) /\ Upgradeable(c)) =>
            IF Len(Collected(c)) > 0
            THEN /\ Cardinality(Reported(c, {CONTRACT_CAN_BE_NAMESPACED})) = 1
                 /\ \A k \in Reported(c, {CONTRACT_CAN_BE_NAMESPACED}) :
                        /\ published[k].data.name = doc[c].name
                        /\ published[k].data.variables = Collected(c)
            ELSE Reported(c, {CONTRACT_CAN_BE_NAMESPACED}) = {}

\* an analysed upgradeable contract with two collected variables, next to an
\* upgradeable contract with none
C3_Witness ==
    /\ analysed
    /\ \E c \in DOMAIN doc :
         Analysed(c) /\ Upgradeable(c) /\ Len(Collected(c)) >= 2
    /\ \E c \in DOMAIN doc :
         Analysed(c) /\ Upgradeable(c) /\ StateVars(c) # {} /\ Len(Collected(c)) = 0

\* a contract the classifier rejects whose only state variable is a plain
\* declaration without initializer
RejectedWithOnePlainVariable(c) ==
    /\ Analysed(c)
    /\ ~Upgradeable(c)
    /\ Cardinality(StateVars(c)) = 1
    /\ \A m \in StateVars(c) :
         doc[c].members[m].attrs = <<>> /\ doc[c].members[m].value = <<>>

C5_ConstantAndImmutableExcluded ==
    analysed =>
        \A c \in DOMAIN doc : \A m \in StateVars(c) :
            IsConstantOrImmutable(doc[c].members[m]) =>
                /\ ReportedVariable(c, m) = {}
                /\ \A k \in Reported(c, {CONTRACT_CAN_BE_NAMESPACED}) :
                     \A j \in DOMAIN published[k].data.variables :
                         published[k].data.variables[j].name # doc[c].members[m].name

\* an analysed upgradeable contract with a constant variable next to a collected
\* one
C5_Witness ==
    /\ analysed
    /\ \E c \in DOMAIN doc :
         /\ Analysed(c) /\ Upgradeable(c)
         /\ Reported(c, {CONTRACT_CAN_BE_NAMESPACED}) # {}
         /\ \E m \in StateVars(c) :
              /\ IsConstantOrImmutable(doc[c].members[m])
              /\ doc[c].members[m].value # <<>>

\* the variable list the pass published for contract c: the list inside its
\* ContractCanBeNamespaced diagnostic, empty when there is none
PublishedVariables(c) ==
    IF Reported(c, {CONTRACT_CAN_BE_NAMESPACED}) = {} THEN <<>>
    ELSE published[SetMin(Reported(c, {CONTRACT_CAN_BE_NAMESPACED}))].data.variables

\* C6 as stated: the list holds, in declaration order, all state variables that
\* are neither constant nor immutable, with or without initializer.
C6_ListHoldsAllNonConstantVariables ==
    analysed =>
        \A c \in DOMAIN doc : Analysed(c) =>
            VariableNames(PublishedVariables(c)) = NamesFrom(c, 1, TRUE)

\* C6 as the code has it: the list holds, in declaration order, the state
\* variables that are neither constant nor immutable and have no initializer; a
\* variable with an initializer is not in it.
C6_ListHoldsNonConstantVariablesWithoutInitializer ==
    analysed =>
        \A c \in DOMAIN doc : Analysed(c) =>
            VariableNames(PublishedVariables(c)) = NamesFrom(c, 1, FALSE)

\* an analysed contract with two listed variables and one with an initializer
C6_Witness ==
    /\ analysed
    /\ \E c \in DOMAIN doc :
         /\ Analysed(c)
         /\ Len(PublishedVariables(c)) >= 2
    /\ \E c \in DOMAIN doc :
         /\ Analysed(c)
         /\ \E m \in StateVars(c) :
              NotExcluded(doc[c].members[m]) /\ doc[c].members[m].value # <<>>


(***************************************************************************)
(* Properties of a code action request (SpecServer)                        *)
(***************************************************************************)
\* C1: in the edit set of every code action the server returns, no two edits
\* have intersecting ranges.
C1_EditsDoNotIntersect ==
    answered => \A k \in DOMAIN codeActions : ~HasIntersectingEdits(codeActions[k])

\* what the loop body of getCodeActions gives for the i-th diagnostic of the
\* request, taken alone
FixOf(i) == CodeActionsFor(doc, keccakMemo, resolvedPrefix, request, request[i])

\* the code actions pushed for the diagnostics of the request that do not throw
RECURSIVE FixesFrom(_)
FixesFrom(i) ==
    IF i > Len(request) THEN <<>>
    ELSE (IF FixOf(i).threw THEN <<>> ELSE FixOf(i).actions) \o FixesFrom(i + 1)

\* C10: the reply holds the fixes of every diagnostic of the request whose fix
\* assembly does not throw, whether it comes before or after one that throws.
C10_FailureIsIsolatedPerDiagnostic ==
    answered => codeActions = FixesFrom(1)


\* the edit editExistingNamespace writes at the captured position: a variable
\* followed by a closing brace
IsStructEndInsert(edit) ==
    edit.newText # <<>> /\ edit.newText[Len(edit.newText)] = "}"

\* the ranges of the closing braces of the structs of contract c that carry the
\* annotation with the expected namespace id
AnnotatedStructEnds(c) ==
    LET nodes == SourceUnitNodes(doc)
    IN { slangToVSCodeRange(nodes, TextRange(nodes, j)) :
           j \in { k \in DOMAIN nodes :
                     /\ nodes[k].c = c /\ nodes[k].m # 0
                     /\ nodes[k].kind = "CloseBrace"
                     /\ doc[c].members[nodes[k].m].kind = "struct"
                     /\ doc[c].members[nodes[k].m].natspec
                            = getNamespaceId(resolvedPrefix, doc[c].name) } }

\* C14: the position the 'move all variables' fix inserts the variables at is
\* the closing brace of a struct annotated with the expected namespace id,
\* wherever that struct sits in the contract; without such a struct no
\* existing namespace is detected.
C14_CapturedPositionIsAnnotatedStructEnd ==
    answered =>
        \A i \in DOMAIN request : request[i].code = CONTRACT_CAN_BE_NAMESPACED =>
            \A k \in DOMAIN FixOf(i).actions :
                \A j \in DOMAIN FixOf(i).actions[k].edits :
                    IsStructEndInsert(FixOf(i).actions[k].edits[j]) =>
                        FixOf(i).actions[k].edits[j].range \in AnnotatedStructEnds(request[i].c)

\* contract c has no struct annotated with the expected namespace id
NoNamespaceStruct(c) ==
    \A m \in DOMAIN doc[c].members :
        doc[c].members[m].kind = "struct" =>
            doc[c].members[m].natspec # getNamespaceId(resolvedPrefix, doc[c].name)

\* the edit carries a synthesized namespace block
IsNamespaceBlock(edit) ==
    edit.newText # <<>> /\ edit.newText[1] = "/// @custom:storage-location erc7201:"

\* the names of the fields of the struct of a namespace block, in order
BlockFields(text) ==
    NamesIn(SubSeq(text, SetMin({ k \in DOMAIN text : text[k] = "{" }),
                   SetMin({ k \in DOMAIN text : text[k] = "}" })))

\* the edits of an edit set with a property
EditsWith(edits, P(_)) == { j \in DOMAIN edits : P(edits[j]) }

\* C15 for the i-th diagnostic of the request and one of its code actions
NewNamespaceEdits(i, action) ==
    LET vs == request[i].data.variables
        e == action.edits
    IN /\ \A v \in 1..(Len(vs) - 1) : vs[v].range.end <= vs[v + 1].range.start
       /\ Cardinality(EditsWith(e, IsNamespaceBlock)) = 1
       /\ \A j \in EditsWith(e, IsNamespaceBlock) :
            /\ e[j].range = vs[1].range
            /\ BlockFields(e[j].newText) = VariableNames(vs)
       /\ Cardinality({ j \in DOMAIN e : e[j].range = vs[1].range }) = 1
       /\ Cardinality({ j \in DOMAIN e : e[j].newText = <<>> }) = Len(vs) - 1
       /\ \A v \in 2..Len(vs) :
            /\ Cardinality({ j \in DOMAIN e : e[j].range = vs[v].range }) = 1
            /\ \A j \in DOMAIN e : e[j].range = vs[v].range => e[j].newText = <<>>

\* C15: for a contract without a namespace struct and k >= 1 variables in the
\* diagnostic, the 'move all variables' fix has exactly one edit replacing the
\* first variable's range with the namespace block, whose struct lists the k
\* variables in declaration order, and exactly k - 1 edits with empty text, one
\* on the range of each other variable.
C15_NewNamespaceReplacesFirstAndDeletesRest ==
    answered =>
        \A i \in DOMAIN request :
            (request[i].code = CONTRACT_CAN_BE_NAMESPACED
             /\ NoNamespaceStruct(request[i].c)) =>
                \A k \in DOMAIN FixOf(i).actions :
                    NewNamespaceEdits(i, FixOf(i).actions[k])

\* a reply with the fix of a contract without namespace struct that has two
\* variables and a function using them
C15_Witness ==
    /\ answered
    /\ \E i \in DOMAIN request :
         /\ request[i].code = CONTRACT_CAN_BE_NAMESPACED
         /\ NoNamespaceStruct(request[i].c)
         /\ Len(request[i].data.variables) >= 2
         /\ \E k \in DOMAIN codeActions :
              /\ codeActions[k] \in { FixOf(i).actions[j] : j \in DOMAIN FixOf(i).actions }
              /\ Len(codeActions[k].edits) > Len(request[i].data.variables)

\* the identifier tokens inside the blocks of the constructors and functions of
\* contract c
BodyIdentifiers(c) ==
    LET nodes == SourceUnitNodes(doc)
    IN { j \in DOMAIN nodes :
           /\ nodes[j].c = c /\ nodes[j].m # 0
           /\ nodes[j].kind = "Identifier"
           /\ doc[c].members[nodes[j].m].kind \in {"func", "ctor"}
           /\ \E b \in 1..(j - 1) :
                /\ nodes[b].kind = "Block"
                /\ nodes[b].c = c /\ nodes[b].m = nodes[j].m
                /\ j <= SubtreeEnd(nodes, b) }

\* the range of token j of the current document
TokenRange(j) ==
    slangToVSCodeRange(SourceUnitNodes(doc), TextRange(SourceUnitNodes(doc), j))

IsRewrite(edit) == edit.newText # <<>> /\ edit.newText[1] = "$."

\* C16 for the i-th diagnostic of the request and one of its code actions
RewritesMatchingIdentifiers(i, action) ==
    LET names == { request[i].data.variables[v].name :
                     v \in DOMAIN request[i].data.variables }
        e == action.edits
    IN /\ \A j \in BodyIdentifiers(request[i].c) :
            IF SourceUnitNodes(doc)[j].text \in names
            THEN /\ Cardinality({ x \in DOMAIN e : e[x].range = TokenRange(j) }) = 1
                 /\ \A x \in DOMAIN e : e[x].range = TokenRange(j) =>
                        e[x].newText = <<"$.", SourceUnitNodes(doc)[j].text>>
            ELSE \A x \in DOMAIN e : e[x].range # TokenRange(j)
       /\ \A x \in EditsWith(e, IsRewrite) :
            \E j \in BodyIdentifiers(request[i].c) : e[x].range = TokenRange(j)

\* C16: in the 'move all variables' fix, every identifier token inside a
\* constructor or function body of the target contract whose text is the name
\* of one of the variables gets exactly one edit, replacing it with $.<name>;
\* an identifier token that matches no variable gets no edit, and nothing but
\* such tokens is rewritten.
C16_MatchingIdentifiersRewrittenOnce ==
    answered =>
        \A i \in DOMAIN request : request[i].code = CONTRACT_CAN_BE_NAMESPACED =>
            \A k \in DOMAIN FixOf(i).actions :
                RewritesMatchingIdentifiers(i, FixOf(i).actions[k])

\* a reply with the fix of a contract with a constructor and a function whose
\* bodies use two of its variables and another identifier
C16_Witness ==
    /\ answered
    /\ \E i \in DOMAIN request :
         /\ request[i].code = CONTRACT_CAN_BE_NAMESPACED
         /\ \E k \in DOMAIN codeActions :
              /\ codeActions[k] \in { FixOf(i).actions[j] : j \in DOMAIN FixOf(i).actions }
              /\ Cardinality(EditsWith(codeActions[k].edits, IsRewrite)) >= 2
         /\ \E j \in BodyIdentifiers(request[i].c) :
              \A v \in DOMAIN request[i].data.variables :
                  request[i].data.variables[v].name # SourceUnitNodes(doc)[j].text
         /\ \E j \in BodyIdentifiers(request[i].c) :
              doc[request[i].c].members[SourceUnitNodes(doc)[j].m].kind = "ctor"

(***************************************************************************)
(* Properties of a session (Spec)                                          *)
(***************************************************************************)
\* the range lies within the text of the current document
InBounds(range) ==
    /\ 0 <= range.start
    /\ range.start <= range.end
    /\ range.end <= TextLength(SourceUnitNodes(doc))

\* C11: every text edit of every code action the server returns has a range
\* that lies within the text of the current document, also when the request
\* carries diagnostics computed for an earlier version.
C11_EditsLieWithinCurrentText ==
    answered =>
        \A k \in DOMAIN codeActions : \A j \in DOMAIN codeActions[k].edits :
            InBounds(codeActions[k].edits[j].range)

\* the requested contract is in the current document and parses without errors
Relocated(contractName) ==
    \E c \in DOMAIN doc : doc[c].valid /\ doc[c].name = contractName

\* C12: when the contract a ContractCanBeNamespaced diagnostic names is not in
\* the current document, or is there only with syntax errors, the 'move all
\* variables' fix the server returns for it has no edits.
C12_NoEditsWithoutRelocatedContract ==
    answered =>
        \A i \in DOMAIN request :
            (request[i].code = CONTRACT_CAN_BE_NAMESPACED
             /\ ~Relocated(request[i].data.name)) =>
                \A j \in DOMAIN FixOf(i).actions :
                    (\E k \in DOMAIN codeActions : codeActions[k] = FixOf(i).actions[j])
                        => FixOf(i).actions[j].edits = <<>>

(***************************************************************************)
(* Properties of the namespace rules (SpecNamespace)                       *)
(***************************************************************************)
\* the published diagnostics with code, as indices
WithCode(code) == { i \in DOMAIN published : published[i].code = code }

GatedCodes ==
    { NAMESPACE_ID_MISMATCH, NAMESPACE_ID_MISMATCH_HASH_COMMENT,
      NAMESPACE_HASH_MISMATCH, NAMESPACE_STANDALONE_HASH_MISMATCH }

\* the expected identifier of contract c under the resolved prefix
ExpectedId(c) == getNamespaceId(resolvedPrefix, doc[c].name)

\* C18: for a contract the classifier rejects, analysis emits none of
\* NamespaceIdMismatch, NamespaceIdMismatchHashComment, NamespaceHashMismatch
\* and NamespaceStandaloneHashMismatch, whatever annotations, comments and
\* hash constants the contract contains.
C18_GatedRulesNeedUpgradeable ==
    analysed =>
        \A c \in DOMAIN doc :
            (doc[c].valid /\ ~Upgradeable(c)) =>
                \A i \in DOMAIN published :
                    published[i].c = c => published[i].code \notin GatedCodes

\* a rejected contract is analysed that has a struct annotated with another
\* id, and a storage location constant with a formula comment for another id
\* and another slot
C18_Witness ==
    /\ analysed
    /\ \E c \in DOMAIN doc :
         /\ doc[c].valid /\ ~Upgradeable(c)
         /\ \E m \in DOMAIN doc[c].members :
              /\ doc[c].members[m].kind = "struct"
              /\ doc[c].members[m].natspec \in NamespaceIds \ {ExpectedId(c)}
         /\ \E m \in DOMAIN doc[c].members :
              /\ doc[c].members[m].kind = "var"
              /\ IsStorageLocationName(doc[c].members[m].name)
              /\ doc[c].members[m].comment \in NamespaceIds \ {ExpectedId(c)}
              /\ doc[c].members[m].value = SlotFromTable(keccakMemo, doc[c].members[m].comment)
         /\ \E m \in DOMAIN doc[c].members :
              /\ doc[c].members[m].kind = "var"
              /\ IsStorageLocationName(doc[c].members[m].name)
              /\ doc[c].members[m].comment = <<>>
              /\ doc[c].members[m].value # <<>>
              /\ doc[c].members[m].value # SlotFromTable(keccakMemo, ExpectedId(c))

\* the ids of the storage location annotations in a struct's documentation
AnnotationIds(natspec) ==
    IF natspec = <<>> THEN {}
    ELSE { SplitLines(natspec)[l] : l \in DOMAIN SplitLines(natspec) } \ {NoAnnotation}

\* C20: in an upgradeable contract, for every struct whose documentation
\* carries a storage location annotation, NamespaceIdMismatch is emitted if
\* and only if the annotation's id is not the expected identifier, and its
\* repair payload is the annotation line with the expected identifier.
C20_IdMismatchIffAnnotationDiffers ==
    analysed =>
        \A c \in DOMAIN doc : \A m \in DOMAIN doc[c].members :
            (/\ doc[c].valid /\ Upgradeable(c)
             /\ doc[c].members[m].kind = "struct"
             /\ AnnotationIds(doc[c].members[m].natspec) # {}) =>
                /\ (\E i \in WithCode(NAMESPACE_ID_MISMATCH) :
                        published[i].c = c /\ published[i].m = m)
                      <=> (\E id \in AnnotationIds(doc[c].members[m].natspec) :
                              id # ExpectedId(c))
                /\ \A i \in WithCode(NAMESPACE_ID_MISMATCH) :
                      (published[i].c = c /\ published[i].m = m) =>
                          published[i].data.replacement = AnnotationLine(ExpectedId(c))

(***************************************************************************)
(* Properties of the classifier (SpecClassifier)                           *)
(***************************************************************************)
\* the three conditions, read off the declaration of contract c
InheritsUpgradeable(c) ==
    \E k \in DOMAIN doc[c].parents : doc[c].parents[k] \in {"Initializable", "UUPSUpgradeable"}

DeclaresAuthorizeUpgrade(c) ==
    \E m \in DOMAIN doc[c].members :
        /\ doc[c].members[m].kind = "func"
        /\ doc[c].members[m].name = "_authorizeUpgrade"
        /\ Len(doc[c].members[m].params) = 1
        /\ doc[c].members[m].params[1].type = "address"

DocumentationHasUpgradesToken(c) ==
    \E k \in DOMAIN doc[c].natspec :
        doc[c].natspec[k] \in {"@custom:oz-upgrades", "@custom:oz-upgrades-from"}

\* C19: the classifier returns true if and only if the inheritance list holds
\* Initializable or UUPSUpgradeable, or the contract declares
\* _authorizeUpgrade with exactly one parameter of type address, or the
\* contract's documentation comment holds the token @custom:oz-upgrades or
\* @custom:oz-upgrades-from.  The classifier's answer is read off the
\* diagnostic of the contract's plain variable, emitted for upgradeable
\* contracts only.
C19_ClassifierIsTheThreeConditions ==
    analysed =>
        \A c \in DOMAIN doc :
            (Reported(c, {VARIABLE_CAN_BE_NAMESPACED}) # {})
                <=> \/ InheritsUpgradeable(c)
                    \/ DeclaresAuthorizeUpgrade(c)
                    \/ DocumentationHasUpgradesToken(c)

(***************************************************************************)
(* Properties of fixes applied in sequence (SpecApply)                     *)
(***************************************************************************)
\* the constructors and functions with a block of contract c
Bodies(c) ==
    { m \in DOMAIN doc[c].members :
        doc[c].members[m].kind \in {"func", "ctor"} /\ doc[c].members[m].hasBlock }

\* how many times the accessor line is in a body
AccessorLines(body) == Cardinality({ k \in DOMAIN body : body[k] = "$line" })

\* the edits of a fix inside the block of member m of contract c
IsAccessorInsert(edit) == edit.newText # <<>> /\ edit.newText[1] = "{"

EditsInside(c, m, edits, P(_)) ==
    LET nodes == SourceUnitNodes(doc)
        block == TextRange(nodes, SetMin({ j \in DOMAIN nodes :
                     nodes[j].c = c /\ nodes[j].m = m /\ nodes[j].kind = "Block" }))
    IN { e \in DOMAIN edits :
           /\ P(edits[e])
           /\ block.start <= edits[e].range.start /\ edits[e].range.end <= block.end }

\* C13: whatever fixes have been applied, with analysis run again in between,
\* no constructor or function body holds the accessor line twice; and a fix
\* inserts the line into a body only where it rewrites an identifier of that
\* body and the body does not hold the line yet, once.
C13_AccessorLineInsertedOnce ==
    \A c \in DOMAIN doc : \A m \in Bodies(c) :
        /\ AccessorLines(doc[c].members[m].body) <= 1
        /\ (answered /\ analysed) =>
              \A k \in DOMAIN codeActions :
                  LET inserts == EditsInside(c, m, codeActions[k].edits, IsAccessorInsert)
                  IN /\ Cardinality(inserts) <= 1
                     /\ inserts # {} =>
                           /\ EditsInside(c, m, codeActions[k].edits, IsRewrite) # {}
                           /\ AccessorLines(doc[c].members[m].body) = 0

\* a fix has been applied that wrote the accessor line into a body and
\* rewrote a there; the user has declared b, and the fix returned now
\* rewrites b in that body without inserting the line again
C13_Witness ==
    /\ analysed /\ answered
    /\ \E c \in DOMAIN doc : \E m \in Bodies(c) :
         /\ AccessorLines(doc[c].members[m].body) = 1
         /\ \E k \in DOMAIN doc[c].members[m].body : doc[c].members[m].body[k] = "$.a"
         /\ \E k \in DOMAIN codeActions :
              /\ EditsInside(c, m, codeActions[k].edits, IsRewrite) # {}
              /\ EditsInside(c, m, codeActions[k].edits, IsAccessorInsert) = {}

\* the members of contract c that printNamespaceTemplate wrote: the struct
\* and the location constant named after the contract
GeneratedMembers(c) ==
    { m \in DOMAIN doc[c].members :
        \/ /\ doc[c].members[m].kind = "struct"
           /\ doc[c].members[m].name = StructName(doc[c].name)
        \/ /\ doc[c].members[m].kind = "var"
           /\ doc[c].members[m].name = LocationName(doc[c].name) }

\* C23: the analysis of a document that holds the generated namespace block
\* reports nothing on the block: no annotation, formula-comment or hash
\* diagnostic on the struct and the constant, and the constant is not among the
\* variables that can be moved.
C23_GeneratedBlockIsConsistent ==
    analysed =>
        \A k \in DOMAIN published :
            /\ published[k].m \in GeneratedMembers(published[k].c)
                  => published[k].code = CONTRACT_CAN_BE_NAMESPACED
            /\ published[k].code = CONTRACT_CAN_BE_NAMESPACED =>
                  \A v \in DOMAIN published[k].data.variables :
                      published[k].data.variables[v].name
                          # LocationName(published[k].data.name)

(***************************************************************************)
(* Properties of the fix on any list of variables (SpecQuickFix)          *)
(***************************************************************************)
\* the edits of a code action that touch the declaration of a variable
EditsAt(action, variable) ==
    { e \in DOMAIN action.edits : action.edits[e].range = variable.range }

\* C24: for a ContractCanBeNamespaced diagnostic the fix returns no code
\* action when the diagnostic's variable list is empty, and with at least one
\* variable it returns exactly one code action, whose edit list has an edit on
\* the declaration of every variable of the list.
C24_NoOpIffNoVariables ==
    (answered /\ Len(request) = 1 /\ request[1].code = CONTRACT_CAN_BE_NAMESPACED) =>
        IF request[1].data.variables = <<>>
        THEN codeActions = <<>>
        ELSE /\ Len(codeActions) = 1
             /\ \A v \in DOMAIN request[1].data.variables :
                    EditsAt(codeActions[1], request[1].data.variables[v]) # {}

(***************************************************************************)
(* Properties of the event loop (SpecConcurrent)                           *)
(***************************************************************************)
\* C21: the diagnostics sent for a diagnostics request are those of one
\* analysis of the parsed tree under one namespace prefix: no other handler ran
\* between the calls of getNamespacePrefix of the pass.
C21_PassUsesOnePrefix ==
    analysed /\ lastPass # NoPass =>
        \E namespacePrefix \in Prefixes :
            published = validateNamespaces(lastPass.tree, namespacePrefix, keccakMemo)

\* C22: the settings cache holds entries for open documents only.
C22_CacheHoldsOpenDocumentsOnly ==
    DOMAIN documentSettings \subseteq documents

====
